---- MODULE Spec2Model ----
(***************************************************************************)
(* Model of the Tool data model of limo (src/core/tool.cpp): command       *)
(* synthesis (Tool::getCommand), the JSON codec (Tool::toJson and the      *)
(* Tool(const Json::Value&) constructor) and the helpers they use.         *)
(*                                                                         *)
(* A std::string is modelled as a sequence of one-character strings, so    *)
(* that starts_with / ends_with, concatenation and the ordering of the     *)
(* keys of a std::map<std::string, std::string> are computed on characters *)
(* exactly as the code computes them.                                      *)
(***************************************************************************)
EXTENDS Integers, Sequences, FiniteSets, TLC

VARIABLES
  tool,         \* the Tool object under consideration
  command,      \* result of the last Tool::getCommand call on tool
  json_object,  \* result of the last Tool::toJson call on tool
  loaded,       \* Tool constructed from json_object by Tool(const Json::Value&)
  launcher_config,  \* a SteamLauncherConfig or HeroicLauncherConfig object
  launcher_info,    \* what the object's getters have returned so far
  fs,           \* the files and directories under $HOME
  detector      \* the last HeroicDetector call and what it returned

toolVars == <<tool, command, json_object, loaded>>
launcherVars == <<launcher_config, launcher_info>>
detectorVars == <<fs, detector>>
vars == <<tool, command, json_object, loaded,
          launcher_config, launcher_info, fs, detector>>

----------------------------------------------------------------------------
(* Bounds of the model *)

\* longest executable path drawn for a Tool
MaxStrLen == 2
\* largest number of user environment variables of a Tool
MaxEnvVars == 2

----------------------------------------------------------------------------
(* String literals of tool.cpp, as character sequences *)

Q == "\""
HostEscape ==
  <<"f", "l", "a", "t", "p", "a", "k", "-", "s", "p", "a", "w", "n", " ", "-", "-", "h", "o", "s", "t", " ">>
SteamHostBinary ==
  <<"s", "t", "e", "a", "m", " ">>
SteamFlatpakWrapper ==
  <<"f", "l", "a", "t", "p", "a", "k", " ", "r", "u", "n", " ", "c", "o", "m", ".", "v", "a", "l", "v", "e", "s", "o", "f", "t", "w", "a", "r", "e", ".", "S", "t", "e", "a", "m", " ">>
AppLaunchFlag ==
  <<"-", "a", "p", "p", "l", "a", "u", "n", "c", "h", " ">>
DirectoryFlag ==
  <<"-", "-", "d", "i", "r", "e", "c", "t", "o", "r", "y", "=">>
CdCommand ==
  <<"c", "d", " ">>
EnvFlag ==
  <<"-", "-", "e", "n", "v", "=">>
ProtonBinary ==
  <<"/", "p", "r", "o", "t", "o", "n">>
ProtonRun ==
  <<" ", "r", "u", "n", " ">>
WineSelector ==
  <<"w", "i", "n", "e">>
ProtontricksFlatpakWrapper ==
  <<"f", "l", "a", "t", "p", "a", "k", " ", "r", "u", "n", " ", "-", "-", "c", "o", "m", "m", "a", "n", "d", "=", "p", "r", "o", "t", "o", "n", "t", "r", "i", "c", "k", "s", "-", "l", "a", "u", "n", "c", "h", " ", "c", "o", "m", ".", "g", "i", "t", "h", "u", "b", ".", "M", "a", "t", "o", "k", "i", "n", "g", ".", "p", "r", "o", "t", "o", "n", "t", "r", "i", "c", "k", "s", " ">>
ProtontricksHostBinary ==
  <<"p", "r", "o", "t", "o", "n", "t", "r", "i", "c", "k", "s", "-", "l", "a", "u", "n", "c", "h", " ">>
AppIdFlag ==
  <<"-", "-", "a", "p", "p", "i", "d", " ">>
SteamCompatDataPath ==
  <<"S", "T", "E", "A", "M", "_", "C", "O", "M", "P", "A", "T", "_", "D", "A", "T", "A", "_", "P", "A", "T", "H">>
SteamCompatClientInstallPath ==
  <<"S", "T", "E", "A", "M", "_", "C", "O", "M", "P", "A", "T", "_", "C", "L", "I", "E", "N", "T", "_", "I", "N", "S", "T", "A", "L", "L", "_", "P", "A", "T", "H">>
UsrPath ==
  <<"/", "u", "s", "r">>
WinePrefixVar ==
  <<"W", "I", "N", "E", "P", "R", "E", "F", "I", "X">>
\* the character codes that order std::string values
Ascii ==
  (" " :> 32) @@ ("\"" :> 34) @@ ("-" :> 45) @@ ("." :> 46) @@ ("/" :> 47) @@ ("0" :> 48) @@ ("1" :> 49) @@ ("2" :> 50) @@ ("3" :> 51) @@ ("4" :> 52) @@ ("5" :> 53) @@ ("6" :> 54) @@ ("7" :> 55) @@ ("8" :> 56) @@ ("9" :> 57) @@ (";" :> 59) @@ ("=" :> 61) @@ ("A" :> 65) @@ ("B" :> 66) @@ ("C" :> 67) @@ ("D" :> 68) @@ ("E" :> 69) @@ ("F" :> 70) @@ ("H" :> 72) @@ ("I" :> 73) @@ ("L" :> 76) @@ ("M" :> 77) @@ ("N" :> 78) @@ ("O" :> 79) @@ ("P" :> 80) @@ ("R" :> 82) @@ ("S" :> 83) @@ ("T" :> 84) @@ ("W" :> 87) @@ ("X" :> 88) @@ ("_" :> 95) @@ ("a" :> 97) @@ ("b" :> 98) @@ ("c" :> 99) @@ ("d" :> 100) @@ ("e" :> 101) @@ ("f" :> 102) @@ ("g" :> 103) @@ ("h" :> 104) @@ ("i" :> 105) @@ ("k" :> 107) @@ ("l" :> 108) @@ ("m" :> 109) @@ ("n" :> 110) @@ ("o" :> 111) @@ ("p" :> 112) @@ ("q" :> 113) @@ ("r" :> 114) @@ ("s" :> 115) @@ ("t" :> 116) @@ ("u" :> 117) @@ ("v" :> 118) @@ ("w" :> 119) @@ ("x" :> 120) @@ ("y" :> 121)

----------------------------------------------------------------------------
(* std::string helpers *)

Digits == <<"0", "1", "2", "3", "4", "5", "6", "7", "8", "9">>

RECURSIVE NatToString(_)
NatToString(n) ==
  IF n < 10 THEN <<Digits[n + 1]>>
  ELSE NatToString(n \div 10) \o <<Digits[(n % 10) + 1]>>

\* std::to_string(int) and std::format("{}", int): decimal digits, '-' if negative
to_string(n) == IF n < 0 THEN <<"-">> \o NatToString(0 - n) ELSE NatToString(n)

\* std::string::starts_with(char) / ends_with(char)
starts_with(string, c) == Len(string) > 0 /\ string[1] = c
ends_with(string, c) == Len(string) > 0 /\ string[Len(string)] = c

\* operator< of std::string: lexicographic on the character codes
RECURSIVE StringLess(_, _)
StringLess(a, b) ==
  IF Len(b) = 0 THEN FALSE
  ELSE IF Len(a) = 0 THEN TRUE
  ELSE IF Ascii[Head(a)] # Ascii[Head(b)] THEN Ascii[Head(a)] < Ascii[Head(b)]
  ELSE StringLess(Tail(a), Tail(b))

\* iteration order of a std::map<std::string, ...>: its keys in ascending order
RECURSIVE MapKeyOrder(_)
MapKeyOrder(keys) ==
  IF keys = {} THEN <<>>
  ELSE LET first == CHOOSE k \in keys : \A o \in keys \ {k} : StringLess(k, o)
       IN <<first>> \o MapKeyOrder(keys \ {first})

\* a std::map built from a list of (variable, value) pairs, later pairs
\* overwriting earlier ones with the same key (operator[] assignment)
RECURSIVE MapFromPairs(_)
MapFromPairs(pairs) ==
  IF Len(pairs) = 0 THEN << >>
  ELSE LET last == pairs[Len(pairs)]
           rest == MapFromPairs(SubSeq(pairs, 1, Len(pairs) - 1))
       IN (last.variable :> last.value) @@ rest

----------------------------------------------------------------------------
(* Tool::encloseInQuotes and Tool::appendEnvironmentVariables *)

encloseInQuotes_AlwaysWraps(string) == <<Q>> \o string \o <<Q>>

encloseInQuotes(string) ==
  IF starts_with(string, Q) /\ ends_with(string, Q)
  THEN string
  ELSE <<Q>> \o string \o <<Q>>

appendEnvironmentVariables_NoEnvFlag(command_in, environment_variables, is_flatpak) ==
  LET keys == MapKeyOrder(DOMAIN environment_variables)
      RECURSIVE Loop(_, _)
      Loop(cmd, i) ==
        IF i > Len(keys) THEN cmd
        ELSE LET c1 == IF Len(cmd) > 0 THEN cmd \o <<" ">> ELSE cmd
             IN Loop(c1 \o keys[i] \o <<"=">>
                        \o encloseInQuotes(environment_variables[keys[i]]), i + 1)
  IN Loop(command_in, 1)

appendEnvironmentVariables(command_in, environment_variables, is_flatpak) ==
  LET keys == MapKeyOrder(DOMAIN environment_variables)
      RECURSIVE Loop(_, _)
      Loop(cmd, i) ==
        IF i > Len(keys) THEN cmd
        ELSE LET c1 == IF Len(cmd) > 0 THEN cmd \o <<" ">> ELSE cmd
                 c2 == IF is_flatpak THEN c1 \o EnvFlag ELSE c1
             IN Loop(c2 \o keys[i] \o <<"=">>
                        \o encloseInQuotes(environment_variables[keys[i]]), i + 1)
  IN Loop(command_in, 1)

----------------------------------------------------------------------------
(* Tool::getCommand *)

\* tool.cpp 192-194: manual mode
getCommandOverwrite_NoHostEscape(t, is_flatpak) == t.command_overwrite_

getCommandOverwrite(t, is_flatpak) ==
  IF is_flatpak THEN HostEscape \o t.command_overwrite_
  ELSE t.command_overwrite_

\* tool.cpp 200-207: runtime_ == steam
getCommandSteam_WrapperTiedToSandbox(t, command_in) ==
  LET c1 == IF Len(command_in) = 0
            THEN command_in \o SteamHostBinary
            ELSE command_in \o SteamFlatpakWrapper
  IN c1 \o AppLaunchFlag \o to_string(t.steam_app_id_)

getCommandSteam(t, command_in) ==
  LET c1 == IF ~t.use_flatpak_runtime_
            THEN command_in \o SteamHostBinary
            ELSE command_in \o SteamFlatpakWrapper
  IN c1 \o AppLaunchFlag \o to_string(t.steam_app_id_)

\* tool.cpp 212-218: working directory in the Heroic branch
appendWorkingDirectoryHeroic(t, is_flatpak, command_in) ==
  IF Len(t.working_directory_) > 0
  THEN IF is_flatpak
       THEN command_in \o DirectoryFlag \o encloseInQuotes(t.working_directory_)
       ELSE command_in \o CdCommand \o encloseInQuotes(t.working_directory_)
                       \o <<";", " ">>
  ELSE command_in

\* tool.cpp 240-246: working directory in the generic branch
appendWorkingDirectory_CdWhenSandboxed(t, is_flatpak, command_in) ==
  IF Len(t.working_directory_) > 0
  THEN command_in \o CdCommand \o encloseInQuotes(t.working_directory_) \o <<";">>
  ELSE command_in

appendWorkingDirectory(t, is_flatpak, command_in) ==
  IF Len(t.working_directory_) > 0
  THEN IF is_flatpak
       THEN command_in \o DirectoryFlag \o encloseInQuotes(t.working_directory_)
       ELSE command_in \o CdCommand \o encloseInQuotes(t.working_directory_) \o <<";">>
  ELSE command_in

\* tool.cpp 221-224: the std::map built from the two Proton compatibility pairs
ProtonCompatVariables(t) ==
  (SteamCompatDataPath :> t.prefix_path_) @@ (SteamCompatClientInstallPath :> UsrPath)

\* tool.cpp 209-238: launcher_type_ == heroic && runtime_ == protontricks
getCommandHeroic_UserVariablesFirst(t, is_flatpak, command_in) ==
  LET c1 == appendWorkingDirectoryHeroic(t, is_flatpak, command_in)
      c2 == appendEnvironmentVariables(c1, t.environment_variables_, is_flatpak)
      c3 == appendEnvironmentVariables(c2, ProtonCompatVariables(t), is_flatpak)
      c4 == IF Len(c3) > 0 THEN c3 \o <<" ">> ELSE c3
      c5 == c4 \o encloseInQuotes(t.proton_path_ \o ProtonBinary) \o ProtonRun
      c6 == c5 \o encloseInQuotes(t.executable_path_)
  IN IF Len(t.arguments_) > 0 THEN c6 \o <<" ">> \o t.arguments_ ELSE c6

getCommandHeroic(t, is_flatpak, command_in) ==
  LET c1 == appendWorkingDirectoryHeroic(t, is_flatpak, command_in)
      c2 == appendEnvironmentVariables(c1, ProtonCompatVariables(t), is_flatpak)
      c3 == appendEnvironmentVariables(c2, t.environment_variables_, is_flatpak)
      c4 == IF Len(c3) > 0 THEN c3 \o <<" ">> ELSE c3
      c5 == c4 \o encloseInQuotes(t.proton_path_ \o ProtonBinary) \o ProtonRun
      c6 == c5 \o encloseInQuotes(t.executable_path_)
  IN IF Len(t.arguments_) > 0 THEN c6 \o <<" ">> \o t.arguments_ ELSE c6

\* tool.cpp 248-250: user variables, then WINEPREFIX for wine with a prefix
appendGenericEnvironment_PrefixAlways(t, is_flatpak, command_in) ==
  LET c1 == appendEnvironmentVariables(command_in, t.environment_variables_, is_flatpak)
  IN IF t.runtime_ = "wine"
     THEN appendEnvironmentVariables(c1, (WinePrefixVar :> t.prefix_path_), is_flatpak)
     ELSE c1

appendGenericEnvironment(t, is_flatpak, command_in) ==
  LET c1 == appendEnvironmentVariables(command_in, t.environment_variables_, is_flatpak)
  IN IF t.runtime_ = "wine" /\ Len(t.prefix_path_) > 0
     THEN appendEnvironmentVariables(c1, (WinePrefixVar :> t.prefix_path_), is_flatpak)
     ELSE c1

\* tool.cpp 252-265: the runtime selector
appendRuntimeSelector_ArgsDropped(t, command_in) ==
  LET c1 == IF Len(command_in) > 0 /\ t.runtime_ # "native"
            THEN command_in \o <<" ">> ELSE command_in
  IN IF t.runtime_ = "wine" THEN c1 \o WineSelector
     ELSE IF t.runtime_ = "protontricks"
     THEN (IF t.use_flatpak_runtime_
           THEN c1 \o ProtontricksFlatpakWrapper
           ELSE c1 \o ProtontricksHostBinary) \o AppIdFlag \o to_string(t.steam_app_id_)
     ELSE c1

appendRuntimeSelector(t, command_in) ==
  LET c1 == IF Len(command_in) > 0 /\ t.runtime_ # "native"
            THEN command_in \o <<" ">> ELSE command_in
  IN IF t.runtime_ = "wine" THEN c1 \o WineSelector
     ELSE IF t.runtime_ = "protontricks"
     THEN LET c2 == (IF t.use_flatpak_runtime_
                     THEN c1 \o ProtontricksFlatpakWrapper
                     ELSE c1 \o ProtontricksHostBinary)
                    \o AppIdFlag \o to_string(t.steam_app_id_)
          IN IF Len(t.protontricks_arguments_) > 0
             THEN c2 \o <<" ">> \o t.protontricks_arguments_
             ELSE c2
     ELSE c1

\* tool.cpp 267-274: the quoted executable and the raw arguments
appendExecutable_ArgumentsQuoted(t, command_in) ==
  LET c1 == IF Len(command_in) > 0 THEN command_in \o <<" ">> ELSE command_in
      c2 == c1 \o encloseInQuotes(t.executable_path_)
  IN IF Len(t.arguments_) > 0 THEN c2 \o <<" ">> \o encloseInQuotes(t.arguments_) ELSE c2

appendExecutable(t, command_in) ==
  LET c1 == IF Len(command_in) > 0 THEN command_in \o <<" ">> ELSE command_in
      c2 == c1 \o encloseInQuotes(t.executable_path_)
  IN IF Len(t.arguments_) > 0 THEN c2 \o <<" ">> \o t.arguments_ ELSE c2

\* tool.cpp 240-274: native / wine / protontricks without Heroic
getCommandGeneric(t, is_flatpak, command_in) ==
  appendExecutable(t,
    appendRuntimeSelector(t,
      appendGenericEnvironment(t, is_flatpak,
        appendWorkingDirectory(t, is_flatpak, command_in))))

getCommand_HeroicAnyRuntime(t, is_flatpak) ==
  IF Len(t.command_overwrite_) > 0
  THEN getCommandOverwrite(t, is_flatpak)
  ELSE LET command0 == IF is_flatpak THEN HostEscape ELSE <<>>
       IN IF t.runtime_ = "steam"
          THEN getCommandSteam(t, command0)
          ELSE IF t.launcher_type_ = "heroic"
          THEN getCommandHeroic(t, is_flatpak, command0)
          ELSE getCommandGeneric(t, is_flatpak, command0)

\* tool.cpp 190-275
getCommand(t, is_flatpak) ==
  IF Len(t.command_overwrite_) > 0
  THEN getCommandOverwrite(t, is_flatpak)
  ELSE LET command0 == IF is_flatpak THEN HostEscape ELSE <<>>
       IN IF t.runtime_ = "steam"
          THEN getCommandSteam(t, command0)
          ELSE IF t.launcher_type_ = "heroic" /\ t.runtime_ = "protontricks"
          THEN getCommandHeroic(t, is_flatpak, command0)
          ELSE getCommandGeneric(t, is_flatpak, command0)

----------------------------------------------------------------------------
(* Json::Value, as far as tool.cpp uses it *)

JNull == [t |-> "null", v |-> <<>>]
JString(s) == [t |-> "string", v |-> s]
JInt(i) == [t |-> "int", v |-> i]
JBool(b) == [t |-> "bool", v |-> b]
JArray(a) == [t |-> "array", v |-> a]
JObject(o) == [t |-> "object", v |-> o]

TrueText == <<"t", "r", "u", "e">>
FalseText == <<"f", "a", "l", "s", "e">>

\* Json::Value::isMember on the members of an object
isMember(members, key) == key \in DOMAIN members

\* Json::Value::operator[](key) const: the member, or null when it is absent
Member(members, key) == IF key \in DOMAIN members THEN members[key] ELSE JNull

\* Json::Value::isString
isString(value) == value.t = "string"

\* the conversions asString / asInt / asBool throw Json::LogicError on a value
\* that is not convertible
ConvertibleToString(value) == value.t \in {"null", "string", "int", "bool"}
ConvertibleToInt(value) == value.t \in {"null", "int", "bool"}
ConvertibleToBool(value) == value.t \in {"null", "int", "bool"}

asString(value) ==
  CASE value.t = "string" -> value.v
    [] value.t = "int" -> to_string(value.v)
    [] value.t = "bool" -> (IF value.v THEN TrueText ELSE FalseText)
    [] OTHER -> <<>>

asInt(value) ==
  CASE value.t = "int" -> value.v
    [] value.t = "bool" -> (IF value.v THEN 1 ELSE 0)
    [] OTHER -> 0

asBool(value) ==
  CASE value.t = "bool" -> value.v
    [] value.t = "int" -> value.v # 0
    [] OTHER -> FALSE

\* Json::Value::size: elements of an array, members of an object, else 0
size(value) ==
  CASE value.t = "array" -> Len(value.v)
    [] value.t = "object" -> Cardinality(DOMAIN value.v)
    [] OTHER -> 0

----------------------------------------------------------------------------
(* The enumerations *)

Runtimes == {"native", "wine", "protontricks", "steam"}
LauncherTypes == {"steam", "heroic"}

\* Tool::Runtime, in declaration order
RuntimeToInt(r) ==
  CASE r = "native" -> 0 [] r = "wine" -> 1 [] r = "protontricks" -> 2
    [] r = "steam" -> 3 [] OTHER -> 4

RuntimeFromInt(i) ==
  CASE i = 0 -> "native" [] i = 1 -> "wine" [] i = 2 -> "protontricks"
    [] i = 3 -> "steam" [] OTHER -> "out_of_range"

\* launcher.h 16-22: enum class LauncherType { steam, heroic }
LauncherTypeToInt(l) == CASE l = "steam" -> 0 [] l = "heroic" -> 1 [] OTHER -> 2

LauncherTypeFromInt(i) ==
  CASE i = 0 -> "steam" [] i = 1 -> "heroic" [] OTHER -> "out_of_range"

\* tool.cpp 79-90 and 131-142: a string runtime by name, else the integer code
RuntimeFromJson(value) ==
  IF isString(value)
  THEN LET runtime_str == asString(value)
       IN CASE runtime_str = <<"p","r","o","t","o","n","t","r","i","c","k","s">>
                 -> "protontricks"
            [] runtime_str = <<"w","i","n","e">> -> "wine"
            [] runtime_str = <<"s","t","e","a","m">> -> "steam"
            [] OTHER -> "native"
  ELSE RuntimeFromInt(asInt(value))

----------------------------------------------------------------------------
(* Tool::toJson *)

\* tool.cpp 288-293: one {variable, value} object per map entry, in map order;
\* the key is never created for an empty map
EnvironmentToJson(environment_variables) ==
  LET keys == MapKeyOrder(DOMAIN environment_variables)
  IN [i \in 1..Len(keys) |->
        JObject([variable |-> JString(keys[i]),
                 value |-> JString(environment_variables[keys[i]])])]

\* tool.cpp 277-304; the result is the member table of the JSON object
toJson(t) ==
  LET fixed ==
        [name |-> JString(t.name_),
         icon_path |-> JString(t.icon_path_),
         executable_path |-> JString(t.executable_path_),
         runtime |-> JInt(RuntimeToInt(t.runtime_)),
         use_flatpak_runtime |-> JBool(t.use_flatpak_runtime_),
         prefix_path |-> JString(t.prefix_path_),
         steam_app_id |-> JInt(t.steam_app_id_),
         working_directory |-> JString(t.working_directory_),
         arguments |-> JString(t.arguments_),
         protontricks_arguments |-> JString(t.protontricks_arguments_),
         command |-> JString(t.command_overwrite_),
         launcher_type |-> JInt(LauncherTypeToInt(t.launcher_type_)),
         launcher_identifier |-> JString(t.launcher_identifier_),
         proton_path |-> JString(t.proton_path_)]
  IN IF DOMAIN t.environment_variables_ = {}
     THEN fixed
     ELSE fixed @@ ("environment_variables"
                      :> JArray(EnvironmentToJson(t.environment_variables_)))

----------------------------------------------------------------------------
(* Tool::Tool(const Json::Value&) *)

\* the member initialisers of class Tool
DefaultTool ==
  [name_ |-> <<>>, icon_path_ |-> <<>>, executable_path_ |-> <<>>,
   runtime_ |-> "native", use_flatpak_runtime_ |-> FALSE, prefix_path_ |-> <<>>,
   steam_app_id_ |-> -1, working_directory_ |-> <<>>,
   environment_variables_ |-> << >>, arguments_ |-> <<>>,
   protontricks_arguments_ |-> <<>>, command_overwrite_ |-> <<>>,
   launcher_type_ |-> "steam", launcher_identifier_ |-> <<>>,
   proton_path_ |-> <<>>]

LauncherFieldsFromJson_LegacyWins(json, t) ==
  LET l1 == IF isMember(json, "launcher_type")
            THEN LauncherTypeFromInt(asInt(json["launcher_type"]))
            ELSE t.launcher_type_
      l2 == IF isMember(json, "launcher")
            THEN (IF asString(json["launcher"]) = <<"h","e","r","o","i","c">>
                  THEN "heroic" ELSE "steam")
            ELSE l1
      i1 == IF isMember(json, "launcher_identifier")
            THEN asString(json["launcher_identifier"]) ELSE t.launcher_identifier_
      i2 == IF isMember(json, "appName")
            THEN asString(json["appName"]) ELSE i1
      p1 == IF isMember(json, "proton_path")
            THEN asString(json["proton_path"]) ELSE t.proton_path_
  IN [t EXCEPT !.launcher_type_ = l2, !.launcher_identifier_ = i2,
               !.proton_path_ = p1]

\* tool.cpp 93-122 and 157-186: launcher fields, the typed key applied after
\* the legacy string key
LauncherFieldsFromJson(json, t) ==
  LET l1 == IF isMember(json, "launcher")
            THEN (IF asString(json["launcher"]) = <<"h","e","r","o","i","c">>
                  THEN "heroic" ELSE "steam")
            ELSE t.launcher_type_
      l2 == IF isMember(json, "launcher_type")
            THEN LauncherTypeFromInt(asInt(json["launcher_type"]))
            ELSE l1
      i1 == IF isMember(json, "appName")
            THEN asString(json["appName"]) ELSE t.launcher_identifier_
      i2 == IF isMember(json, "launcher_identifier")
            THEN asString(json["launcher_identifier"]) ELSE i1
      p1 == IF isMember(json, "proton_path")
            THEN asString(json["proton_path"]) ELSE t.proton_path_
  IN [t EXCEPT !.launcher_type_ = l2, !.launcher_identifier_ = i2,
               !.proton_path_ = p1]

LauncherFieldsConvertible(json) ==
  /\ isMember(json, "launcher") => ConvertibleToString(json["launcher"])
  /\ isMember(json, "launcher_type") => ConvertibleToInt(json["launcher_type"])
  /\ isMember(json, "appName") => ConvertibleToString(json["appName"])
  /\ isMember(json, "launcher_identifier")
       => ConvertibleToString(json["launcher_identifier"])
  /\ isMember(json, "proton_path") => ConvertibleToString(json["proton_path"])

\* element [i] of environment_variables, then its member "variable" / "value"
EnvironmentEntry(value, i, key) ==
  LET element == IF value.t = "array" THEN value.v[i] ELSE JNull
  IN IF element.t = "object" THEN Member(element.v, key) ELSE JNull

EnvironmentFromJson_FirstValueKept(value) ==
  MapFromPairs([i \in 1..size(value) |->
                  [variable |-> asString(EnvironmentEntry(value, size(value) + 1 - i,
                                                          "variable")),
                   value |-> asString(EnvironmentEntry(value, size(value) + 1 - i,
                                                       "value"))]])

\* tool.cpp 148-152
EnvironmentFromJson(value) ==
  MapFromPairs([i \in 1..size(value) |->
                  [variable |-> asString(EnvironmentEntry(value, i, "variable")),
                   value |-> asString(EnvironmentEntry(value, i, "value"))]])

\* operator[](int) asserts an array (or null); operator[](key) an object (or null)
EnvironmentConvertible(value) ==
  /\ size(value) > 0 => value.t = "array"
  /\ value.t = "array" =>
       \A i \in 1..Len(value.v) :
         /\ value.v[i].t \in {"null", "object"}
         /\ ConvertibleToString(EnvironmentEntry(value, i, "variable"))
         /\ ConvertibleToString(EnvironmentEntry(value, i, "value"))

ToolFromOldJson_WineWhenPrefix(json) ==
  LET t1 == [DefaultTool EXCEPT
               !.name_ = asString(Member(json, "name")),
               !.icon_path_ = asString(Member(json, "icon_path")),
               !.command_overwrite_ = asString(Member(json, "command")),
               !.executable_path_ =
                  IF isMember(json, "executable_path")
                  THEN asString(json["executable_path"]) ELSE @,
               !.working_directory_ =
                  IF isMember(json, "working_directory")
                  THEN asString(json["working_directory"]) ELSE @,
               !.arguments_ =
                  IF isMember(json, "arguments")
                  THEN asString(json["arguments"]) ELSE @,
               !.protontricks_arguments_ =
                  IF isMember(json, "protontricks_arguments")
                  THEN asString(json["protontricks_arguments"]) ELSE @,
               !.runtime_ =
                  IF isMember(json, "runtime")
                  THEN RuntimeFromJson(json["runtime"])
                  ELSE IF isMember(json, "prefix_path") THEN "wine" ELSE @]
  IN LauncherFieldsFromJson(json, t1)

\* tool.cpp 60-123: the old format
ToolFromOldJson(json) ==
  LET t1 == [DefaultTool EXCEPT
               !.name_ = asString(Member(json, "name")),
               !.icon_path_ = asString(Member(json, "icon_path")),
               !.command_overwrite_ = asString(Member(json, "command")),
               !.executable_path_ =
                  IF isMember(json, "executable_path")
                  THEN asString(json["executable_path"]) ELSE @,
               !.working_directory_ =
                  IF isMember(json, "working_directory")
                  THEN asString(json["working_directory"]) ELSE @,
               !.arguments_ =
                  IF isMember(json, "arguments")
                  THEN asString(json["arguments"]) ELSE @,
               !.protontricks_arguments_ =
                  IF isMember(json, "protontricks_arguments")
                  THEN asString(json["protontricks_arguments"]) ELSE @,
               !.runtime_ =
                  IF isMember(json, "runtime")
                  THEN RuntimeFromJson(json["runtime"]) ELSE @]
  IN LauncherFieldsFromJson(json, t1)

OldJsonConvertible(json) ==
  /\ \A key \in {"name", "icon_path", "command", "executable_path",
                 "working_directory", "arguments", "protontricks_arguments"} :
       ConvertibleToString(Member(json, key))
  /\ isString(Member(json, "runtime")) \/ ConvertibleToInt(Member(json, "runtime"))
  /\ LauncherFieldsConvertible(json)

\* tool.cpp 124-187: the current format
ToolFromCurrentJson_FlatpakFlagDropped(json) ==
  LET t1 == [DefaultTool EXCEPT
               !.name_ = asString(Member(json, "name")),
               !.icon_path_ = asString(Member(json, "icon_path")),
               !.executable_path_ = asString(Member(json, "executable_path")),
               !.runtime_ = RuntimeFromJson(Member(json, "runtime")),
               !.prefix_path_ = asString(Member(json, "prefix_path")),
               !.steam_app_id_ = asInt(Member(json, "steam_app_id")),
               !.working_directory_ = asString(Member(json, "working_directory")),
               !.environment_variables_ =
                  EnvironmentFromJson(Member(json, "environment_variables")),
               !.arguments_ = asString(Member(json, "arguments")),
               !.protontricks_arguments_ =
                  asString(Member(json, "protontricks_arguments")),
               !.command_overwrite_ = asString(Member(json, "command"))]
  IN LauncherFieldsFromJson(json, t1)

ToolFromCurrentJson(json) ==
  LET t1 == [DefaultTool EXCEPT
               !.name_ = asString(Member(json, "name")),
               !.icon_path_ = asString(Member(json, "icon_path")),
               !.executable_path_ = asString(Member(json, "executable_path")),
               !.runtime_ = RuntimeFromJson(Member(json, "runtime")),
               !.use_flatpak_runtime_ = asBool(Member(json, "use_flatpak_runtime")),
               !.prefix_path_ = asString(Member(json, "prefix_path")),
               !.steam_app_id_ = asInt(Member(json, "steam_app_id")),
               !.working_directory_ = asString(Member(json, "working_directory")),
               !.environment_variables_ =
                  EnvironmentFromJson(Member(json, "environment_variables")),
               !.arguments_ = asString(Member(json, "arguments")),
               !.protontricks_arguments_ =
                  asString(Member(json, "protontricks_arguments")),
               !.command_overwrite_ = asString(Member(json, "command"))]
  IN LauncherFieldsFromJson(json, t1)

CurrentJsonConvertible(json) ==
  /\ \A key \in {"name", "icon_path", "executable_path", "prefix_path",
                 "working_directory", "arguments", "protontricks_arguments",
                 "command"} :
       ConvertibleToString(Member(json, key))
  /\ isString(Member(json, "runtime")) \/ ConvertibleToInt(Member(json, "runtime"))
  /\ ConvertibleToBool(Member(json, "use_flatpak_runtime"))
  /\ ConvertibleToInt(Member(json, "steam_app_id"))
  /\ EnvironmentConvertible(Member(json, "environment_variables"))
  /\ LauncherFieldsConvertible(json)

ToolFromJson_AlwaysCurrent(json) ==
  [ok |-> CurrentJsonConvertible(json),
   tool |-> IF CurrentJsonConvertible(json)
            THEN ToolFromCurrentJson(json) ELSE DefaultTool]

\* tool.cpp 58-188: the constructor either yields a Tool or throws
ToolFromJson(json) ==
  IF ~isMember(json, "use_flatpak_runtime")
  THEN [ok |-> OldJsonConvertible(json),
        tool |-> IF OldJsonConvertible(json) THEN ToolFromOldJson(json) ELSE DefaultTool]
  ELSE [ok |-> CurrentJsonConvertible(json),
        tool |-> IF CurrentJsonConvertible(json)
                 THEN ToolFromCurrentJson(json) ELSE DefaultTool]

----------------------------------------------------------------------------
(* The Tool values considered, and the state machine *)

PathAlphabet == {"x", Q}

\* every string over PathAlphabet of at most MaxStrLen characters
ExecutablePaths == UNION {[1..k -> PathAlphabet] : k \in 0..MaxStrLen}

\* the user environment variables a Tool may carry: any choice among the
\* first MaxEnvVars entries of this list
EnvironmentPool ==
  << [variable |-> <<"B">>, value |-> <<"v">>],
     [variable |-> <<"A">>, value |-> <<Q, "q", Q>>],
     [variable |-> <<"b">>, value |-> <<>>],
     [variable |-> <<"a">>, value |-> <<Q>>] >>

PoolSize ==
  IF MaxEnvVars < Len(EnvironmentPool) THEN MaxEnvVars ELSE Len(EnvironmentPool)

EnvironmentOf(S) ==
  [variable \in {EnvironmentPool[i].variable : i \in S} |->
     (CHOOSE e \in {EnvironmentPool[i] : i \in S} : e.variable = variable).value]

EnvironmentMaps == {EnvironmentOf(S) : S \in SUBSET (1..PoolSize)}

SomeArguments == <<"r", " ", Q, "s", Q>>
SomeAppIds == {-1, 42}

ToolSet(commands, runtimes, launchers, executables, flatpaks, prefixes, app_ids, directories, environments, arguments, protontricks_arguments) ==
  [name_ : {<<"n">>},
   icon_path_ : {<<"i">>},
   executable_path_ : executables,
   runtime_ : runtimes,
   use_flatpak_runtime_ : flatpaks,
   prefix_path_ : prefixes,
   steam_app_id_ : app_ids,
   working_directory_ : directories,
   environment_variables_ : environments,
   arguments_ : arguments,
   protontricks_arguments_ : protontricks_arguments,
   command_overwrite_ : commands,
   launcher_type_ : launchers,
   launcher_identifier_ : {<<"g">>},
   proton_path_ : {<<"o">>}]

\* In each family the fields its branch of getCommand reads range over all
\* their values; the other fields carry one non-default value.

\* manual mode, for every runtime and launcher
ManualTools ==
  ToolSet({<<"m">>}, Runtimes, LauncherTypes, {<<"x">>}, {TRUE}, {<<"p">>}, {42},
          {<<"w">>}, {EnvironmentOf(1..PoolSize)}, {SomeArguments}, {<<"t">>})

SteamTools ==
  ToolSet({<<>>}, {"steam"}, LauncherTypes, {<<"x">>}, BOOLEAN, {<<"p">>},
          SomeAppIds, {<<"w">>}, {EnvironmentOf(1..PoolSize)}, {SomeArguments},
          {<<"t">>})

HeroicTools ==
  ToolSet({<<>>}, {"protontricks"}, {"heroic"}, ExecutablePaths, {TRUE},
          {<<>>, <<"p">>}, {42}, {<<>>, <<"w">>}, EnvironmentMaps,
          {<<>>, SomeArguments}, {<<"t">>})

WineTools ==
  ToolSet({<<>>}, {"wine"}, LauncherTypes, ExecutablePaths, {TRUE},
          {<<>>, <<"p">>}, {42}, {<<>>, <<"w">>}, EnvironmentMaps,
          {<<>>, SomeArguments}, {<<"t">>})

NativeTools ==
  ToolSet({<<>>}, {"native"}, LauncherTypes, ExecutablePaths, {TRUE},
          {<<"p">>}, {42}, {<<>>, <<"w">>}, EnvironmentMaps,
          {<<>>, SomeArguments}, {<<"t">>})

ProtontricksTools ==
  ToolSet({<<>>}, {"protontricks"}, {"steam"}, ExecutablePaths, BOOLEAN,
          {<<"p">>}, SomeAppIds, {<<>>, <<"w">>}, EnvironmentMaps,
          {<<>>, SomeArguments}, {<<>>, <<"t">>})

\* the worked example of the wine runtime: its field values, its Tool and the
\* command expected for it
ExWineExe ==
  <<"/", "g", "a", "m", "e", "s", "/", "a", "p", "p", ".", "e", "x", "e">>
ExWinePrefix ==
  <<"/", "h", "o", "m", "e", "/", "u", "/", ".", "w", "i", "n", "e">>
ExWineArgs ==
  <<"-", "-", "f", "u", "l", "l", "s", "c", "r", "e", "e", "n">>
ExWineCommand ==
  <<"W", "I", "N", "E", "P", "R", "E", "F", "I", "X", "=", "\"", "/", "h", "o", "m", "e", "/", "u", "/", ".", "w", "i", "n", "e", "\"", " ", "w", "i", "n", "e", " ", "\"", "/", "g", "a", "m", "e", "s", "/", "a", "p", "p", ".", "e", "x", "e", "\"", " ", "-", "-", "f", "u", "l", "l", "s", "c", "r", "e", "e", "n">>
ExampleWineTool ==
  [DefaultTool EXCEPT !.name_ = <<"n">>, !.icon_path_ = <<"i">>,
                      !.runtime_ = "wine", !.executable_path_ = ExWineExe,
                      !.prefix_path_ = ExWinePrefix, !.arguments_ = ExWineArgs]

Tools ==
  ManualTools \cup SteamTools \cup HeroicTools \cup WineTools \cup NativeTools
    \cup ProtontricksTools \cup {ExampleWineTool}

NoCommand == [done |-> FALSE, is_flatpak |-> FALSE, text |-> <<>>]
NoJson == [done |-> FALSE, members |-> << >>]
NotLoaded == [done |-> FALSE, ok |-> FALSE, tool |-> DefaultTool, json |-> << >>]

\* no launcher configuration object built, no detector call made
NoLauncherConfig == [variant |-> "none"]
NoLauncherInfo == << >>
NoFiles == << >>
NoCall == [call |-> "none"]
LauncherIdle == launcher_config = NoLauncherConfig /\ launcher_info = NoLauncherInfo
DetectorIdle == fs = NoFiles /\ detector = NoCall

Init ==
  /\ tool \in Tools
  /\ command = NoCommand
  /\ json_object = NoJson
  /\ loaded = NotLoaded
  /\ LauncherIdle
  /\ DetectorIdle

\* a caller runs the tool: command = tool.getCommand(is_flatpak)
GetCommand(is_flatpak) ==
  /\ command' = [done |-> TRUE, is_flatpak |-> is_flatpak,
                 text |-> getCommand(tool, is_flatpak)]
  /\ UNCHANGED <<tool, json_object, loaded, launcherVars, detectorVars>>

\* the tool is saved: json_object = tool.toJson()
ToJson ==
  /\ json_object' = [done |-> TRUE, members |-> toJson(tool)]
  /\ UNCHANGED <<tool, command, loaded, launcherVars, detectorVars>>

\* tool.cpp 89 and 141: static_cast<Runtime> of an integer that is no
\* enumerator's code. Where the enumeration has no fixed underlying type the
\* conversion is undefined: the value may compare equal to any enumerator, or
\* to none of them.
StaticCastOutcomes == Runtimes \cup {"out_of_range"}

\* the saved document is read back: loaded = Tool(json_object); loaded.json
\* keeps the constructor's argument
FromJson ==
  /\ json_object.done
  /\ \E cast \in StaticCastOutcomes :
       LET result == ToolFromJson(json_object.members)
           parsed == IF result.tool.runtime_ = "out_of_range"
                     THEN [result.tool EXCEPT !.runtime_ = cast]
                     ELSE result.tool
       IN loaded' = [done |-> TRUE, ok |-> result.ok, tool |-> parsed,
                     json |-> json_object.members]
  /\ UNCHANGED <<tool, command, json_object, launcherVars, detectorVars>>

Next ==
  \/ \E is_flatpak \in BOOLEAN : GetCommand(is_flatpak)
  \/ ToJson
  \/ FromJson

Spec == Init /\ [][Next]_vars

----------------------------------------------------------------------------
(* Persisted documents read by Tool(const Json::Value&) *)

\* removing a member of a document
WithoutKeys(members, keys) == [key \in DOMAIN members \ keys |-> members[key]]

\* setting a member of a document (Json::Value::operator[] assignment)
WithMember(members, key, value) ==
  [k \in DOMAIN members \cup {key} |-> IF k = key THEN value ELSE members[k]]

\* a Tool of the Heroic/Proton branch with every field set
SavedTool ==
  [name_ |-> <<"n">>, icon_path_ |-> <<"i">>, executable_path_ |-> <<"x">>,
   runtime_ |-> "protontricks", use_flatpak_runtime_ |-> TRUE,
   prefix_path_ |-> <<"p">>, steam_app_id_ |-> 42, working_directory_ |-> <<"w">>,
   environment_variables_ |-> EnvironmentOf({1, 2}), arguments_ |-> SomeArguments,
   protontricks_arguments_ |-> <<"t">>, command_overwrite_ |-> <<>>,
   launcher_type_ |-> "heroic", launcher_identifier_ |-> <<"g">>,
   proton_path_ |-> <<"o">>]

\* the document toJson writes for it: the current format
CurrentDocument == toJson(SavedTool)

\* a document of the old format: no use_flatpak_runtime, and of the other
\* members only name, icon_path and command for certain
OldDocument ==
  [name |-> JString(<<"n">>), icon_path |-> JString(<<"i">>),
   command |-> JString(<<>>)]

\* the old-format document the editor builds for a Heroic game
\* (edittoolwidget.cpp 259-283), without the runtime member
OldHeroicDocument ==
  [name |-> JString(<<"n">>), icon_path |-> JString(<<"i">>),
   executable_path |-> JString(<<"x">>), launcher |-> JString(<<"h","e","r","o","i","c">>),
   appName |-> JString(<<"g">>), working_directory |-> JString(<<"w">>),
   arguments |-> JString(SomeArguments),
   protontricks_arguments |-> JString(<<"t">>),
   environment_variables |-> JArray(EnvironmentToJson(EnvironmentOf({1, 2})))]

\* values of every JSON type, to stand where another type is expected
TypeSamples ==
  {JNull, JString(<<"s">>), JInt(7), JBool(TRUE), JArray(<<>>),
   JArray(<<JInt(1)>>), JObject([variable |-> JString(<<"A">>)])}

\* the current-format document with one member missing
DocumentsMissingKey ==
  {WithoutKeys(CurrentDocument, {key}) :
     key \in DOMAIN CurrentDocument \ {"use_flatpak_runtime"}}

\* the current-format document with one member of another type
DocumentsOtherType ==
  {WithMember(CurrentDocument, key, value) :
     key \in DOMAIN CurrentDocument, value \in TypeSamples}

RuntimeSamples ==
  {JString(<<"w","i","n","e">>), JString(<<"s","t","e","a","m">>),
   JString(<<"p","r","o","t","o","n","t","r","i","c","k","s">>),
   JString(<<"n","a","t","i","v","e">>), JString(<<"W","i","n","e">>),
   JString(<<"3">>), JString(<<>>),
   JInt(0), JInt(1), JInt(2), JInt(3), JInt(4), JInt(7), JInt(-1),
   JBool(TRUE), JNull}

\* documents of both formats with every kind of runtime member, or none
DocumentsRuntime ==
  {WithMember(base, "runtime", value) :
     base \in {CurrentDocument, OldDocument, OldHeroicDocument},
     value \in RuntimeSamples}
  \cup {WithoutKeys(base, {"runtime"}) :
          base \in {CurrentDocument, OldDocument, OldHeroicDocument}}

\* old-format documents without runtime that carry other members
DocumentsOldNoRuntime ==
  {WithoutKeys(WithoutKeys(CurrentDocument, {"use_flatpak_runtime", "runtime"}), keys) :
     keys \in SUBSET {"prefix_path", "steam_app_id", "environment_variables",
                      "launcher_type", "executable_path"}}

LauncherSamples ==
  {JString(<<"h","e","r","o","i","c">>), JString(<<"s","t","e","a","m">>),
   JString(<<"H","e","r","o","i","c">>)}

OptionalMember(members, key, values) ==
  {WithoutKeys(members, {key})} \cup {WithMember(members, key, value) : value \in values}

\* documents of both formats with every combination of the launcher members
DocumentsLauncher ==
  UNION {UNION {UNION {OptionalMember(d3, "launcher_identifier", {JString(<<"g">>)})
                       : d3 \in OptionalMember(d2, "appName", {JString(<<"a">>)})}
                : d2 \in OptionalMember(d1, "launcher_type", {JInt(0), JInt(1)})}
         : d1 \in UNION {OptionalMember(WithoutKeys(base, {"proton_path"}),
                                        "launcher", LauncherSamples)
                         : base \in {CurrentDocument, OldDocument}}}

\* the old-format document with one member of another type
DocumentsOldOtherType ==
  {WithMember(OldHeroicDocument, key, value) :
     key \in DOMAIN OldHeroicDocument, value \in TypeSamples}

\* environment_variables lists that are not in key order or list a variable
\* more than once
Pair(variable, value) ==
  JObject([variable |-> JString(variable), value |-> JString(value)])

EnvironmentLists ==
  {<<Pair(<<"B">>, <<"v">>), Pair(<<"A">>, <<"x">>)>>,
   <<Pair(<<"A">>, <<"x">>), Pair(<<"A">>, <<"y">>)>>,
   <<Pair(<<"B">>, <<"v">>), Pair(<<"A">>, <<"x">>), Pair(<<"B">>, <<"w">>)>>,
   <<Pair(<<"a">>, <<"x">>), Pair(<<"B">>, <<"v">>), Pair(<<"A">>, <<"y">>)>>}

\* in the current format for the Heroic/Proton and the wine command, and in
\* the old format
DocumentsEnvironment ==
  {WithMember(base, "environment_variables", JArray(list)) :
     base \in {CurrentDocument,
               WithMember(CurrentDocument, "runtime", JInt(RuntimeToInt("wine"))),
               OldHeroicDocument},
     list \in EnvironmentLists}

Documents ==
  {CurrentDocument, OldDocument, OldHeroicDocument}
    \cup DocumentsMissingKey \cup DocumentsOtherType \cup DocumentsRuntime
    \cup DocumentsOldNoRuntime \cup DocumentsOldOtherType \cup DocumentsLauncher
    \cup DocumentsEnvironment

\* a document found in the persisted configuration, next to a Tool in use
InitDocuments ==
  /\ tool = ExampleWineTool
  /\ command = NoCommand
  /\ json_object \in {[done |-> TRUE, members |-> d] : d \in Documents}
  /\ loaded = NotLoaded
  /\ LauncherIdle
  /\ DetectorIdle

SpecDocuments == InitDocuments /\ [][Next]_vars

----------------------------------------------------------------------------
(* launcher.cpp: the two LauncherConfig classes *)

SteamVersionName == <<"s","t","e","a","m">>

\* launcher.cpp 8-13 and 50-60: the constructors copy their arguments
SteamLauncherConfig(steam_app_id, install_path, proton_prefix) ==
  [variant |-> "steam",
   arguments |-> <<steam_app_id, install_path, proton_prefix>>,
   steam_app_id_ |-> steam_app_id, install_path_ |-> install_path,
   proton_prefix_ |-> proton_prefix]

HeroicLauncherConfig(app_name, install_path, wine_prefix, wine_version, proton_path, is_flatpak) ==
  [variant |-> "heroic",
   arguments |-> <<app_name, install_path, wine_prefix, wine_version,
                   proton_path, is_flatpak>>,
   app_name_ |-> app_name, install_path_ |-> install_path,
   wine_prefix_ |-> wine_prefix, wine_version_ |-> wine_version,
   proton_path_ |-> proton_path, is_flatpak_ |-> is_flatpak]

\* the getters, dispatched on the object's class
getType(c) == IF c.variant = "steam" THEN "steam" ELSE "heroic"

getIdentifier(c) ==
  IF c.variant = "steam" THEN to_string(c.steam_app_id_) ELSE c.app_name_

getInstallPath(c) == c.install_path_

getWinePrefix_InstallPath(c) ==
  IF c.variant = "steam" THEN c.install_path_ ELSE c.wine_prefix_

getWinePrefix(c) ==
  IF c.variant = "steam" THEN c.proton_prefix_ ELSE c.wine_prefix_

getWineVersion(c) ==
  IF c.variant = "steam" THEN SteamVersionName ELSE c.wine_version_

getProtonPath(c) == IF c.variant = "steam" THEN <<>> ELSE c.proton_path_

isFlatpak(c) == IF c.variant = "steam" THEN FALSE ELSE c.is_flatpak_

Getter(name, c) ==
  CASE name = "getType" -> getType(c)
    [] name = "getIdentifier" -> getIdentifier(c)
    [] name = "getInstallPath" -> getInstallPath(c)
    [] name = "getWinePrefix" -> getWinePrefix(c)
    [] name = "getWineVersion" -> getWineVersion(c)
    [] name = "getProtonPath" -> getProtonPath(c)
    [] name = "isFlatpak" -> isFlatpak(c)

\* constructor arguments drawn for the two classes
SomeInstallPaths == {<<>>, <<"/","i">>}
SomePrefixes == {<<>>, <<"/","p">>}
SomeVersions == {<<>>, <<"G","E">>}
SomeProtonPaths == {<<>>, <<"/","o">>}
SomeHeroicNames == {<<>>, <<"4","2">>}
SteamAppIds == {-1, 0, 42}

NewSteamLauncherConfig(steam_app_id, install_path, proton_prefix) ==
  /\ launcher_config' = SteamLauncherConfig(steam_app_id, install_path, proton_prefix)
  /\ launcher_info' = NoLauncherInfo
  /\ UNCHANGED <<toolVars, detectorVars>>

NewHeroicLauncherConfig(app_name, install_path, wine_prefix, wine_version, proton_path, is_flatpak) ==
  /\ launcher_config' = HeroicLauncherConfig(app_name, install_path, wine_prefix,
                                              wine_version, proton_path, is_flatpak)
  /\ launcher_info' = NoLauncherInfo
  /\ UNCHANGED <<toolVars, detectorVars>>

\* a caller asks the object for one of its values
CallGetter(name) ==
  /\ launcher_config.variant # "none"
  /\ launcher_info' = WithMember(launcher_info, name, Getter(name, launcher_config))
  /\ UNCHANGED <<toolVars, launcher_config, detectorVars>>

GetType == CallGetter("getType")
GetIdentifier == CallGetter("getIdentifier")
GetInstallPath == CallGetter("getInstallPath")
GetWinePrefix == CallGetter("getWinePrefix")
GetWineVersion == CallGetter("getWineVersion")
GetProtonPath == CallGetter("getProtonPath")
IsFlatpak == CallGetter("isFlatpak")

InitLauncher ==
  /\ tool = ExampleWineTool
  /\ command = NoCommand
  /\ json_object = NoJson
  /\ loaded = NotLoaded
  /\ LauncherIdle
  /\ DetectorIdle

NextLauncher ==
  \/ \E steam_app_id \in SteamAppIds, install_path \in SomeInstallPaths,
        proton_prefix \in SomePrefixes :
       NewSteamLauncherConfig(steam_app_id, install_path, proton_prefix)
  \/ \E app_name \in SomeHeroicNames, install_path \in SomeInstallPaths,
        wine_prefix \in SomePrefixes, wine_version \in SomeVersions,
        proton_path \in SomeProtonPaths, is_flatpak \in BOOLEAN :
       NewHeroicLauncherConfig(app_name, install_path, wine_prefix, wine_version,
                               proton_path, is_flatpak)
  \/ GetType
  \/ GetIdentifier
  \/ GetInstallPath
  \/ GetWinePrefix
  \/ GetWineVersion
  \/ GetProtonPath
  \/ IsFlatpak

SpecLauncher == InitLauncher /\ [][NextLauncher]_vars

----------------------------------------------------------------------------
(* heroicdetector.cpp: the files it reads *)

\* A path is the configuration root it lies under ("flatpak": $HOME/.var/app/
\* com.heroicgameslauncher.hgl/config/heroic, "native": $HOME/.config/heroic,
\* "/": none, an absolute path), the subdirectory of the root, and a name in
\* that subdirectory. $HOME is taken to be set and not to contain ".var/app".
NoPath == [root |-> "", sub |-> "", name |-> <<>>]
FlatpakConfig == [root |-> "flatpak", sub |-> "", name |-> <<>>]
NativeConfig == [root |-> "native", sub |-> "", name |-> <<>>]
FlatpakTools == [root |-> "flatpak", sub |-> "tools/proton", name |-> <<>>]

InstalledJson == <<"i","n","s","t","a","l","l","e","d",".","j","s","o","n">>
DotJson == <<".","j","s","o","n">>
StoreDirs == <<"store", "gog_store", "amazon_store">>

\* std::filesystem::path::operator/ : an absolute right-hand side replaces
\* the path
Join(dir, sub, name) ==
  IF starts_with(name, "/")
  THEN [root |-> "/", sub |-> "", name |-> name]
  ELSE [root |-> dir.root, sub |-> sub, name |-> name]

\* fs[root] = [exists, store, games, tools]: store maps the store directories
\* that hold an installed.json to that file, games maps the file names in
\* GamesConfig to the files, tools = [exists, readable, entries] lists
\* tools/proton in the order a scan enumerates it; fs.absolute maps other
\* absolute paths to [is_dir, file]. A file is [status, json] with status
\* "ok", "garbled" (not JSON) or "unreadable" (cannot be opened).
ToolsEntryNames(tools) == {tools.entries[i].name : i \in DOMAIN tools.entries}

\* std::filesystem::exists
Exists(f, path) ==
  CASE path.root \notin {"flatpak", "native", "/"} -> FALSE
    [] path.root = "/" -> path.name \in DOMAIN f.absolute
    [] path.sub = "" -> f[path.root].exists
    [] path.sub = "GamesConfig" ->
         f[path.root].exists /\ path.name \in DOMAIN f[path.root].games
    [] path.sub = "tools/proton" ->
         /\ f[path.root].exists /\ f[path.root].tools.exists
         /\ path.name = <<>> \/ path.name \in ToolsEntryNames(f[path.root].tools)
    [] OTHER ->
         /\ f[path.root].exists /\ path.name = InstalledJson
         /\ path.sub \in DOMAIN f[path.root].store

\* std::filesystem::is_directory of an existing path
IsDirectory(f, path) ==
  CASE path.root = "/" -> f.absolute[path.name].is_dir
    [] path.sub = "tools/proton" /\ path.name # <<>> ->
         \E i \in DOMAIN f[path.root].tools.entries :
           /\ f[path.root].tools.entries[i].name = path.name
           /\ f[path.root].tools.entries[i].is_dir
    [] OTHER -> path.name = <<>>

\* the file an std::ifstream opens at an existing path
FileAt(f, path) ==
  CASE path.root = "/" -> f.absolute[path.name].file
    [] path.sub = "GamesConfig" -> f[path.root].games[path.name]
    [] OTHER -> f[path.root].store[path.sub]

\* std::string::find: the first position (from 0) of needle, or npos
npos == -1
find(haystack, needle) ==
  LET hits == {i \in 0..(Len(haystack) - Len(needle)) :
                 SubSeq(haystack, i + 1, i + Len(needle)) = needle}
  IN IF hits = {} THEN npos ELSE CHOOSE i \in hits : \A j \in hits : i <= j

\* Json::Value::isMember asserts an object or null
MemberTestable(value) == value.t \in {"null", "object"}

----------------------------------------------------------------------------
(* heroicdetector.cpp: the operations. Each yields its result and the set of
   paths it touched. *)

getHeroicConfigDir_NativeFirst(f) ==
  IF Exists(f, NativeConfig)
  THEN [path |-> NativeConfig, touched |-> {NativeConfig}]
  ELSE IF Exists(f, FlatpakConfig)
  THEN [path |-> FlatpakConfig, touched |-> {FlatpakConfig, NativeConfig}]
  ELSE [path |-> NoPath, touched |-> {FlatpakConfig, NativeConfig}]

getHeroicConfigDir_Remembered(f) ==
  IF detector.call = "isHeroicInstalled" /\ detector.config_dir # NoPath
  THEN [path |-> detector.config_dir, touched |-> {}]
  ELSE IF Exists(f, FlatpakConfig)
  THEN [path |-> FlatpakConfig, touched |-> {FlatpakConfig}]
  ELSE IF Exists(f, NativeConfig)
  THEN [path |-> NativeConfig, touched |-> {FlatpakConfig, NativeConfig}]
  ELSE [path |-> NoPath, touched |-> {FlatpakConfig, NativeConfig}]

\* heroicdetector.cpp 68-86
getHeroicConfigDir(f) ==
  IF Exists(f, FlatpakConfig)
  THEN [path |-> FlatpakConfig, touched |-> {FlatpakConfig}]
  ELSE IF Exists(f, NativeConfig)
  THEN [path |-> NativeConfig, touched |-> {FlatpakConfig, NativeConfig}]
  ELSE [path |-> NoPath, touched |-> {FlatpakConfig, NativeConfig}]

\* heroicdetector.cpp 12-16
isHeroicInstalled(f) ==
  LET config_dir == getHeroicConfigDir(f)
  IN [value |-> config_dir.path # NoPath /\ Exists(f, config_dir.path),
      touched |-> config_dir.touched \cup ({config_dir.path} \ {NoPath})]

\* heroicdetector.cpp 88-115
getHeroicToolsDir(f) ==
  LET config_dir == getHeroicConfigDir(f)
      tools_dir == Join(config_dir.path, "tools/proton", <<>>)
  IN IF config_dir.path = NoPath
     THEN [path |-> NoPath, touched |-> config_dir.touched]
     ELSE IF config_dir.path.root = "flatpak" /\ Exists(f, FlatpakTools)
     THEN [path |-> FlatpakTools, touched |-> config_dir.touched \cup {FlatpakTools}]
     ELSE [path |-> IF Exists(f, tools_dir) THEN tools_dir ELSE NoPath,
           touched |-> config_dir.touched \cup {tools_dir}
                         \cup (IF config_dir.path.root = "flatpak"
                               THEN {FlatpakTools} ELSE {})]

\* heroicdetector.cpp 251-266: the first directory of the scan whose name
\* contains wine_version; a scan that fails finds nothing
ScanForVersion(f, wine_version, tools_dir) ==
  LET tools == f[tools_dir.root].tools
      matches == {i \in DOMAIN tools.entries :
                    /\ tools.entries[i].is_dir
                    /\ find(tools.entries[i].name, wine_version) # npos}
  IN IF ~tools.readable \/ matches = {}
     THEN NoPath
     ELSE LET first == CHOOSE i \in matches : \A j \in matches : i <= j
          IN Join(tools_dir, "tools/proton", tools.entries[first].name)

findProtonPath_ScanOnly(f, wine_version, tools_dir) ==
  IF tools_dir = NoPath \/ ~Exists(f, tools_dir)
  THEN [path |-> NoPath, touched |-> {tools_dir} \ {NoPath}]
  ELSE [path |-> ScanForVersion(f, wine_version, tools_dir),
        touched |-> {tools_dir}]

\* heroicdetector.cpp 236-269
findProtonPath(f, wine_version, tools_dir) ==
  LET exact_path == Join(tools_dir, "tools/proton", wine_version)
  IN IF tools_dir = NoPath \/ ~Exists(f, tools_dir)
     THEN [path |-> NoPath, touched |-> {tools_dir} \ {NoPath}]
     ELSE IF Exists(f, exact_path) /\ IsDirectory(f, exact_path)
     THEN [path |-> exact_path, touched |-> {tools_dir, exact_path}]
     ELSE [path |-> ScanForVersion(f, wine_version, tools_dir),
           touched |-> {tools_dir, exact_path}]

\* heroicdetector.h: struct HeroicGameInfo, and an absent std::optional of it
DefaultGameInfo ==
  [app_name |-> <<>>, title |-> <<>>, install_path |-> <<>>,
   wine_prefix |-> <<>>, wine_version |-> <<>>, proton_path |-> NoPath]

NoGame(touched) == [present |-> FALSE, info |-> DefaultGameInfo, touched |-> touched]

GameConfigAccepted_KeysOptional(file) ==
  /\ file.status = "ok"
  /\ MemberTestable(file.json)
  /\ ConvertibleToString(Member(file.json.v, "install_path"))
  /\ ConvertibleToString(Member(file.json.v, "winePrefix"))
  /\ isMember(file.json.v, "wineVersion") =>
       /\ MemberTestable(file.json.v["wineVersion"])
       /\ isMember(file.json.v["wineVersion"].v, "name") =>
            ConvertibleToString(file.json.v["wineVersion"].v["name"])

\* heroicdetector.cpp 128-162: the per-game file is read to the end without a
\* Json::Exception and without an early return
GameConfigAccepted(file) ==
  /\ file.status = "ok"
  /\ MemberTestable(file.json)
  /\ isMember(file.json.v, "install_path")
  /\ ConvertibleToString(file.json.v["install_path"])
  /\ isMember(file.json.v, "winePrefix")
  /\ ConvertibleToString(file.json.v["winePrefix"])
  /\ isMember(file.json.v, "wineVersion") =>
       /\ MemberTestable(file.json.v["wineVersion"])
       /\ isMember(file.json.v["wineVersion"].v, "name") =>
            ConvertibleToString(file.json.v["wineVersion"].v["name"])

\* heroicdetector.cpp 158-162
WineVersionName(json) ==
  IF isMember(json.v, "wineVersion") /\ isMember(json.v["wineVersion"].v, "name")
  THEN asString(json.v["wineVersion"].v["name"])
  ELSE <<>>

\* heroicdetector.cpp 117-162: the HeroicGameInfo read from the per-game file,
\* before the Proton path is looked for
GameInfoFromFile(f, app_name, config_dir) ==
  LET game_config_path == Join(config_dir, "GamesConfig", app_name \o DotJson)
  IN IF ~Exists(f, game_config_path) THEN NoGame({game_config_path})
     ELSE IF ~GameConfigAccepted(FileAt(f, game_config_path))
     THEN NoGame({game_config_path})
     ELSE LET json == FileAt(f, game_config_path).json
          IN [present |-> TRUE,
              info |-> [app_name |-> app_name, title |-> <<>>,
                        install_path |-> asString(Member(json.v, "install_path")),
                        wine_prefix |-> asString(Member(json.v, "winePrefix")),
                        wine_version |-> WineVersionName(json),
                        proton_path |-> NoPath],
              touched |-> {game_config_path}]

AttachProton_AbsentWhenUnresolved(f, game) ==
  LET tools_dir == getHeroicToolsDir(f)
      proton_path == findProtonPath(f, game.info.wine_version, tools_dir.path)
  IN IF ~game.present \/ game.info.wine_version = <<>>
     THEN game
     ELSE IF proton_path.path = NoPath
     THEN NoGame(game.touched \cup tools_dir.touched \cup proton_path.touched)
     ELSE [game EXCEPT !.info.proton_path = proton_path.path,
                       !.touched = @ \cup tools_dir.touched \cup proton_path.touched]

\* heroicdetector.cpp 164-171: the tools directory is located from the
\* configuration root as it is resolved now
AttachProton(f, game) ==
  LET tools_dir == getHeroicToolsDir(f)
      proton_path == findProtonPath(f, game.info.wine_version, tools_dir.path)
  IN IF ~game.present \/ game.info.wine_version = <<>>
     THEN game
     ELSE [game EXCEPT !.info.proton_path = proton_path.path,
                       !.touched = @ \cup tools_dir.touched \cup proton_path.touched]

\* heroicdetector.cpp 117-179
parseGameConfig(f, app_name, config_dir) ==
  AttachProton(f, GameInfoFromFile(f, app_name, config_dir))

getGameConfig_NoRootCheck(f, app_name) ==
  LET config_dir == getHeroicConfigDir(f)
      game == parseGameConfig(f, app_name, config_dir.path)
  IN [game EXCEPT !.touched = @ \cup config_dir.touched]

\* heroicdetector.cpp 57-66
getGameConfig(f, app_name) ==
  LET config_dir == getHeroicConfigDir(f)
      game == parseGameConfig(f, app_name, config_dir.path)
  IN IF config_dir.path = NoPath \/ ~Exists(f, config_dir.path)
     THEN NoGame(config_dir.touched)
     ELSE [game EXCEPT !.touched = @ \cup config_dir.touched]

\* heroicdetector.cpp 205-224: the loop over the store's entries from entry i
\* on; a Json::Exception ends it with the games collected so far (228-233)
RECURSIVE StoreEntries(_, _, _, _, _, _)
StoreEntries(f, entries, i, config_dir, games, touched) ==
  IF i > Len(entries) THEN [games |-> games, touched |-> touched]
  ELSE LET entry == entries[i]
           game_info == parseGameConfig(f, asString(entry.v["appName"]), config_dir)
       IN IF ~MemberTestable(entry)
          THEN [games |-> games, touched |-> touched]
          ELSE IF ~isMember(entry.v, "appName")
          THEN StoreEntries(f, entries, i + 1, config_dir, games, touched)
          ELSE IF ~ConvertibleToString(entry.v["appName"])
          THEN [games |-> games, touched |-> touched]
          ELSE IF ~game_info.present
          THEN StoreEntries(f, entries, i + 1, config_dir, games,
                            touched \cup game_info.touched)
          ELSE IF ~isMember(entry.v, "title")
          THEN StoreEntries(f, entries, i + 1, config_dir,
                            Append(games, game_info.info),
                            touched \cup game_info.touched)
          ELSE IF ~ConvertibleToString(entry.v["title"])
          THEN [games |-> games, touched |-> touched \cup game_info.touched]
          ELSE StoreEntries(f, entries, i + 1, config_dir,
                            Append(games, [game_info.info EXCEPT
                                             !.title = asString(entry.v["title"])]),
                            touched \cup game_info.touched)

\* heroicdetector.cpp 181-234
detectGamesFromStore(f, installed_json_path, config_dir) ==
  LET file == FileAt(f, installed_json_path)
  IN IF file.status # "ok" \/ file.json.t # "array"
     THEN [games |-> <<>>, touched |-> {installed_json_path}]
     ELSE StoreEntries(f, file.json.v, 1, config_dir, <<>>, {installed_json_path})

\* heroicdetector.cpp 29-51: the stores from the k-th on, in the order Epic,
\* GOG, Amazon
RECURSIVE DetectStores(_, _, _, _, _)
DetectStores(f, config_dir, k, games, touched) ==
  IF k > Len(StoreDirs) THEN [games |-> games, touched |-> touched]
  ELSE LET installed == Join(config_dir, StoreDirs[k], InstalledJson)
           store_games == detectGamesFromStore(f, installed, config_dir)
       IN IF Exists(f, installed)
          THEN DetectStores(f, config_dir, k + 1, games \o store_games.games,
                            touched \cup store_games.touched)
          ELSE DetectStores(f, config_dir, k + 1, games, touched \cup {installed})

\* heroicdetector.cpp 18-55
detectGames(f) ==
  LET config_dir == getHeroicConfigDir(f)
  IN IF config_dir.path = NoPath \/ ~Exists(f, config_dir.path)
     THEN [games |-> <<>>, touched |-> config_dir.touched]
     ELSE DetectStores(f, config_dir.path, 1, <<>>, config_dir.touched)

----------------------------------------------------------------------------
(* The directory trees considered, and the detector's state machine *)

OkFile(json) == [status |-> "ok", json |-> json]
GarbledFile == [status |-> "garbled", json |-> JNull]
UnreadableFile == [status |-> "unreadable", json |-> JNull]
NoFile == [status |-> "missing", json |-> JNull]

VersionGE == <<"G","E">>
\* a version name that is an absolute path
VersionAbsolute == <<"/","u">>

\* the per-game files of the games a, b and d under a root; tag tells the two
\* roots' files apart; no file for game c
GameA(tag) ==
  OkFile(JObject([install_path |-> JString(<<"/", tag, "a">>),
                  winePrefix |-> JString(<<"~", tag, "a">>),
                  wineVersion |-> JObject([name |-> JString(VersionGE)])]))

GameB(tag) ==
  OkFile(JObject([install_path |-> JString(<<"/", tag, "b">>),
                  winePrefix |-> JString(<<"~", tag, "b">>)]))

GameDFiles(tag) ==
  {OkFile(JObject([install_path |-> JString(<<"/", tag, "d">>),
                   winePrefix |-> JString(<<"~", tag, "d">>),
                   wineVersion |-> JObject([other |-> JString(VersionGE)])])),
   GarbledFile, UnreadableFile,
   OkFile(JObject([winePrefix |-> JString(<<"~", tag, "d">>)])),
   OkFile(JObject([install_path |-> JString(<<"/", tag, "d">>)])),
   OkFile(JObject([install_path |-> JArray(<<JString(<<"/", tag, "d">>)>>),
                   winePrefix |-> JString(<<"~", tag, "d">>)])),
   OkFile(JObject([install_path |-> JInt(7),
                   winePrefix |-> JString(<<"~", tag, "d">>)])),
   OkFile(JObject([install_path |-> JString(<<"/", tag, "d">>),
                   winePrefix |-> JString(<<"~", tag, "d">>),
                   wineVersion |-> JString(VersionGE)])),
   OkFile(JInt(5)),
   OkFile(JArray(<<>>)),
   OkFile(JObject([install_path |-> JString(<<"/", tag, "d">>),
                   winePrefix |-> JString(<<"~", tag, "d">>),
                   wineVersion |-> JObject([name |-> JString(VersionAbsolute)])])),
   OkFile(JObject([install_path |-> JString(<<"/", tag, "d">>),
                   winePrefix |-> JString(<<"~", tag, "d">>),
                   wineVersion |-> JNull]))}

GamesConfig(tag, d_file) ==
  ((<<"a">> \o DotJson) :> GameA(tag)) @@ ((<<"b">> \o DotJson) :> GameB(tag))
    @@ ((<<"d">> \o DotJson) :> d_file)

\* entries of a store's installed.json
Entry(app_name) == JObject([appName |-> JString(app_name)])
TitledEntry(app_name, title) ==
  JObject([appName |-> JString(app_name), title |-> JString(title)])

StoreAB == OkFile(JArray(<<TitledEntry(<<"a">>, <<"T","a">>), Entry(<<"b">>)>>))
StoreB == OkFile(JArray(<<TitledEntry(<<"b">>, <<"T","b">>)>>))
StoreA == OkFile(JArray(<<Entry(<<"a">>)>>))
StoreDB == OkFile(JArray(<<TitledEntry(<<"d">>, <<"T","d">>), Entry(<<"b">>)>>))
StoreDA == OkFile(JArray(<<Entry(<<"d">>), TitledEntry(<<"a">>, <<"T","a">>)>>))

StoreFiles ==
  {NoFile, GarbledFile, UnreadableFile,
   OkFile(JObject([appName |-> JString(<<"a">>)])), OkFile(JNull),
   OkFile(JArray(<<>>)), StoreAB, StoreB, StoreDB,
   OkFile(JArray(<<JObject([title |-> JString(<<"U">>)]), Entry(<<"a">>)>>)),
   OkFile(JArray(<<TitledEntry(<<"c">>, <<"T","c">>), Entry(<<"a">>)>>)),
   OkFile(JArray(<<Entry(<<"a">>), TitledEntry(<<"a">>, <<"T","a">>)>>)),
   OkFile(JArray(<<JInt(5), Entry(<<"b">>)>>)),
   OkFile(JArray(<<JObject([appName |-> JArray(<<JString(<<"a">>)>>)]),
                   Entry(<<"b">>)>>)),
   OkFile(JArray(<<Entry(<<"b">>),
                   JObject([appName |-> JString(<<"a">>), title |-> JArray(<<>>)]),
                   Entry(<<"b">>)>>))}

\* the installed.json files of a root: only those that exist
StoreMap(epic, gog, amazon) ==
  LET all == ("store" :> epic) @@ ("gog_store" :> gog) @@ ("amazon_store" :> amazon)
  IN [dir \in {d \in DOMAIN all : all[d].status # "missing"} |-> all[dir]]

StoreMaps ==
  {StoreMap(x, StoreB, StoreA) : x \in StoreFiles}
    \cup {StoreMap(StoreAB, x, StoreA) : x \in StoreFiles}
    \cup {StoreMap(StoreAB, StoreB, x) : x \in StoreFiles}

\* tools/proton
Directory(name) == [name |-> name, is_dir |-> TRUE]
RegularFile(name) == [name |-> name, is_dir |-> FALSE]
ToolsDirectory(entries) == [exists |-> TRUE, readable |-> TRUE, entries |-> entries]
NoTools == [exists |-> FALSE, readable |-> FALSE, entries |-> <<>>]

ToolsDirectories ==
  {NoTools, ToolsDirectory(<<>>),
   ToolsDirectory(<<Directory(VersionGE)>>),
   ToolsDirectory(<<RegularFile(VersionGE), Directory(<<"x","G","E">>)>>),
   ToolsDirectory(<<Directory(<<"G","E","-","r","c">>), Directory(VersionGE)>>),
   ToolsDirectory(<<Directory(VersionGE), Directory(<<"G","E","-","r","c">>)>>),
   ToolsDirectory(<<RegularFile(<<"x","G","E">>)>>),
   ToolsDirectory(<<Directory(<<"y">>), Directory(<<"x","G","E">>),
                    Directory(<<"G","E","-","r","c">>)>>),
   [exists |-> TRUE, readable |-> FALSE,
    entries |-> <<Directory(<<"x","G","E">>)>>]}

HeroicRoot(tag, stores, d_file, tools) ==
  [exists |-> TRUE, store |-> stores, games |-> GamesConfig(tag, d_file),
   tools |-> tools]

AbsentRoot ==
  [exists |-> FALSE, store |-> [dir \in {} |-> NoFile],
   games |-> [name \in {} |-> NoFile], tools |-> NoTools]

\* the roots considered: every store file in every store position, every
\* per-game file of game d, every tools directory
HeroicRoots(tag) ==
  {HeroicRoot(tag, stores, GarbledFile, ToolsDirectory(<<Directory(VersionGE)>>)) :
     stores \in StoreMaps}
    \cup {HeroicRoot(tag, StoreMap(StoreDB, StoreA, StoreDA), d_file,
                     ToolsDirectory(<<Directory(VersionGE)>>)) :
            d_file \in GameDFiles(tag)}
    \cup {HeroicRoot(tag, StoreMap(StoreAB, StoreB, StoreA), GarbledFile, tools) :
            tools \in ToolsDirectories}

\* a game as Heroic writes it
Croc == <<"C","r","o","c">>
CrocInstallPath == <<"/","g","a","m","e","s","/","C","r","o","c">>
CrocPrefix == <<"/","h","o","m","e","/","u","/","h","e","r","o","i","c","/","C","r","o","c">>
GEProton == <<"G","E","-","P","r","o","t","o","n","9","-","2">>
GEProtonRc == <<"G","E","-","P","r","o","t","o","n","9","-","2","-","r","c">>

CrocRoot ==
  [exists |-> TRUE,
   store |-> StoreMap(OkFile(JArray(<<JObject([appName |-> JString(Croc),
                                              title |-> JString(Croc)])>>)),
                      NoFile, NoFile),
   games |-> ((Croc \o DotJson) :>
                OkFile(JObject([install_path |-> JString(CrocInstallPath),
                                winePrefix |-> JString(CrocPrefix),
                                wineVersion |-> JObject([name |-> JString(GEProton)])]))),
   tools |-> ToolsDirectory(<<Directory(GEProtonRc), Directory(GEProton)>>)]

\* the names getGameConfig is asked for; no file for game c
AppNames == {<<"a">>, <<"b">>, <<"c">>, <<"d">>, Croc}

\* paths outside both roots
NoAbsolutePaths == [name \in {} |-> [is_dir |-> FALSE, file |-> NoFile]]
AbsolutePaths ==
  {NoAbsolutePaths,
   VersionAbsolute :> [is_dir |-> TRUE, file |-> NoFile],
   VersionAbsolute :> [is_dir |-> FALSE, file |-> GarbledFile]}

\* a root whose game d names VersionAbsolute as its version
AbsoluteVersionRoot(tag, tools) ==
  HeroicRoot(tag, StoreMap(StoreDB, StoreA, StoreDA),
             OkFile(JObject([install_path |-> JString(<<"/", tag, "d">>),
                             winePrefix |-> JString(<<"~", tag, "d">>),
                             wineVersion |->
                               JObject([name |-> JString(VersionAbsolute)])])),
             tools)

\* neither root, one of them, or both (then with different files)
Filesystems ==
  {[flatpak |-> AbsentRoot, native |-> AbsentRoot, absolute |-> NoAbsolutePaths]}
    \cup {[flatpak |-> root, native |-> AbsentRoot, absolute |-> NoAbsolutePaths] :
            root \in HeroicRoots("f")}
    \cup {[flatpak |-> AbsentRoot, native |-> root, absolute |-> NoAbsolutePaths] :
            root \in HeroicRoots("n")}
    \cup {[flatpak |-> root,
           native |-> HeroicRoot("n", StoreMap(StoreDA, NoFile, StoreAB),
                                 GameB("n"), NoTools),
           absolute |-> NoAbsolutePaths] :
            root \in HeroicRoots("f")}
    \cup {[flatpak |-> AbsentRoot, native |-> AbsoluteVersionRoot("n", tools),
           absolute |-> paths] :
            tools \in {NoTools, ToolsDirectory(<<Directory(VersionGE)>>)},
            paths \in AbsolutePaths}
    \cup {[flatpak |-> AbsentRoot, native |-> CrocRoot, absolute |-> NoAbsolutePaths]}

InitDetector ==
  /\ tool = ExampleWineTool
  /\ command = NoCommand
  /\ json_object = NoJson
  /\ loaded = NotLoaded
  /\ LauncherIdle
  /\ fs \in Filesystems
  /\ detector = NoCall

\* The detector's record of a call holds the call, its result, the paths it
\* touched, and current: no file has changed since the call returned.

\* HeroicDetector::isHeroicInstalled()
IsHeroicInstalled ==
  /\ detector' = [call |-> "isHeroicInstalled",
                  value |-> isHeroicInstalled(fs).value,
                  config_dir |-> getHeroicConfigDir(fs).path,
                  touched |-> isHeroicInstalled(fs).touched,
                  current |-> TRUE]
  /\ UNCHANGED <<toolVars, launcherVars, fs>>

\* HeroicDetector::detectGames()
DetectGames ==
  /\ detector' = [call |-> "detectGames",
                  games |-> detectGames(fs).games,
                  touched |-> detectGames(fs).touched,
                  current |-> TRUE]
  /\ UNCHANGED <<toolVars, launcherVars, fs>>

\* HeroicDetector::getGameConfig(app_name)
GetGameConfig(app_name) ==
  /\ detector' = [call |-> "getGameConfig", app_name |-> app_name,
                  present |-> getGameConfig(fs, app_name).present,
                  info |-> getGameConfig(fs, app_name).info,
                  touched |-> getGameConfig(fs, app_name).touched,
                  current |-> TRUE]
  /\ UNCHANGED <<toolVars, launcherVars, fs>>

NextDetector ==
  \/ IsHeroicInstalled
  \/ DetectGames
  \/ \E app_name \in AppNames : GetGameConfig(app_name)

SpecDetector == InitDetector /\ [][NextDetector]_vars

----------------------------------------------------------------------------
(* Other processes (Heroic, the user) change the files between the calls *)

ConfigRoots == {"flatpak", "native"}
RootTag(root) == IF root = "flatpak" THEN "f" ELSE "n"

EmptyRoot ==
  [exists |-> TRUE, store |-> [dir \in {} |-> NoFile],
   games |-> [name \in {} |-> NoFile], tools |-> NoTools]

\* the files written: the Epic store's installed.json, game a's file, and the
\* subdirectories of tools/proton
WrittenStores == {StoreAB, StoreA}
WrittenGameFiles(root) == {GameA(RootTag(root)), GarbledFile}
ProtonNames == {VersionGE, <<"G","E","-","r","c">>}
MaxProtonDirectories == 1

\* what the last call left is no longer current
FilesChanged ==
  detector' = IF detector.call = "none" THEN detector
              ELSE [detector EXCEPT !.current = FALSE]

CreateRoot(root) ==
  /\ ~fs[root].exists
  /\ fs' = [fs EXCEPT ![root] = EmptyRoot]
  /\ FilesChanged
  /\ UNCHANGED <<toolVars, launcherVars>>

RemoveRoot(root) ==
  /\ fs[root].exists
  /\ fs' = [fs EXCEPT ![root] = AbsentRoot]
  /\ FilesChanged
  /\ UNCHANGED <<toolVars, launcherVars>>

WriteStore(root, file) ==
  /\ fs[root].exists
  /\ fs' = [fs EXCEPT ![root].store = ("store" :> file)]
  /\ FilesChanged
  /\ UNCHANGED <<toolVars, launcherVars>>

RemoveStore(root) ==
  /\ fs[root].exists
  /\ "store" \in DOMAIN fs[root].store
  /\ fs' = [fs EXCEPT ![root].store = [dir \in {} |-> NoFile]]
  /\ FilesChanged
  /\ UNCHANGED <<toolVars, launcherVars>>

WriteGameConfig(root, file) ==
  /\ fs[root].exists
  /\ fs' = [fs EXCEPT ![root].games = ((<<"a">> \o DotJson) :> file)]
  /\ FilesChanged
  /\ UNCHANGED <<toolVars, launcherVars>>

RemoveGameConfig(root) ==
  /\ fs[root].exists
  /\ fs[root].games # [name \in {} |-> NoFile]
  /\ fs' = [fs EXCEPT ![root].games = [name \in {} |-> NoFile]]
  /\ FilesChanged
  /\ UNCHANGED <<toolVars, launcherVars>>

\* a Proton build is installed: tools/proton is created if need be, and the
\* build's directory is listed last by a scan
InstallProton(root, name) ==
  /\ fs[root].exists
  /\ name \notin ToolsEntryNames(fs[root].tools)
  /\ Len(fs[root].tools.entries) < MaxProtonDirectories
  /\ fs' = [fs EXCEPT ![root].tools =
                ToolsDirectory(Append(fs[root].tools.entries, Directory(name)))]
  /\ FilesChanged
  /\ UNCHANGED <<toolVars, launcherVars>>

RemoveTools(root) ==
  /\ fs[root].exists
  /\ fs[root].tools.exists
  /\ fs' = [fs EXCEPT ![root].tools = NoTools]
  /\ FilesChanged
  /\ UNCHANGED <<toolVars, launcherVars>>

ChangeFiles ==
  \E root \in ConfigRoots :
    \/ CreateRoot(root)
    \/ RemoveRoot(root)
    \/ \E file \in WrittenStores : WriteStore(root, file)
    \/ RemoveStore(root)
    \/ \E file \in WrittenGameFiles(root) : WriteGameConfig(root, file)
    \/ RemoveGameConfig(root)
    \/ \E name \in ProtonNames : InstallProton(root, name)
    \/ RemoveTools(root)

InitChanging ==
  /\ tool = ExampleWineTool
  /\ command = NoCommand
  /\ json_object = NoJson
  /\ loaded = NotLoaded
  /\ LauncherIdle
  /\ fs = [flatpak |-> AbsentRoot, native |-> AbsentRoot,
           absolute |-> NoAbsolutePaths]
  /\ detector = NoCall

NextChanging ==
  \/ IsHeroicInstalled
  \/ DetectGames
  \/ GetGameConfig(<<"a">>)
  \/ ChangeFiles

SpecChanging == InitChanging /\ [][NextChanging]_vars

----------------------------------------------------------------------------
(* getGameConfig step by step, while other processes change the files. The
   record of the call also holds the step reached and the configuration root
   resolved at the start; current: no file has changed since the call began. *)

CallInProgress == detector.call # "none" /\ detector.step # "done"

\* heroicdetector.cpp 59-63
ResolveConfigDir(app_name) ==
  /\ ~CallInProgress
  /\ LET config_dir == getHeroicConfigDir(fs)
         found == config_dir.path # NoPath /\ Exists(fs, config_dir.path)
     IN detector' = [call |-> "getGameConfig",
                     step |-> IF found THEN "resolved" ELSE "done",
                     app_name |-> app_name,
                     config_dir |-> config_dir.path,
                     present |-> FALSE,
                     info |-> DefaultGameInfo,
                     touched |-> config_dir.touched,
                     current |-> TRUE]
  /\ UNCHANGED <<toolVars, launcherVars, fs>>

\* heroicdetector.cpp 65, 117-162
ReadGameConfig ==
  /\ CallInProgress /\ detector.step = "resolved"
  /\ LET game == GameInfoFromFile(fs, detector.app_name, detector.config_dir)
     IN detector' = [detector EXCEPT
                       !.step = IF game.present /\ game.info.wine_version # <<>>
                                THEN "read" ELSE "done",
                       !.present = game.present,
                       !.info = game.info,
                       !.touched = @ \cup game.touched]
  /\ UNCHANGED <<toolVars, launcherVars, fs>>

\* heroicdetector.cpp 164-171
LocateProton ==
  /\ CallInProgress /\ detector.step = "read"
  /\ LET game == AttachProton(fs, [present |-> TRUE, info |-> detector.info,
                                   touched |-> detector.touched])
     IN detector' = [detector EXCEPT !.step = "done",
                                     !.info = game.info,
                                     !.touched = game.touched]
  /\ UNCHANGED <<toolVars, launcherVars, fs>>

NextRace ==
  \/ ResolveConfigDir(<<"a">>)
  \/ ReadGameConfig
  \/ LocateProton
  \/ \E root \in ConfigRoots :
       \/ CreateRoot(root)
       \/ RemoveRoot(root)
       \/ \E file \in WrittenGameFiles(root) : WriteGameConfig(root, file)
       \/ \E name \in ProtonNames : InstallProton(root, name)

SpecRace == InitChanging /\ [][NextRace]_vars

----------------------------------------------------------------------------
(* Vocabulary of the properties.  These definitions restate what the       *)
(* specification says about a command; none of them uses the operators     *)
(* that model tool.cpp.                                                    *)

StartsWith(s, p) == Len(p) <= Len(s) /\ SubSeq(s, 1, Len(p)) = p
EndsWith(s, p) == Len(p) <= Len(s) /\ SubSeq(s, Len(s) - Len(p) + 1, Len(s)) = p
OccursAt(s, p, i) == i + Len(p) - 1 <= Len(s) /\ SubSeq(s, i, i + Len(p) - 1) = p
Occurrences(s, p) == Cardinality({i \in 1..Len(s) : OccursAt(s, p, i)})
Contains(s, p) == \E i \in 1..Len(s) : OccursAt(s, p, i)

\* the quoting rule: wrapped in double quotes unless it already starts and
\* ends with one
Quoted(s) ==
  IF Len(s) > 0 /\ s[1] = Q /\ s[Len(s)] = Q THEN s ELSE <<Q>> \o s \o <<Q>>

\* the decimal text of the application ids the model uses
Decimal(n) ==
  CASE n = 42 -> <<"4", "2">> [] n = -1 -> <<"-", "1">> [] n = 0 -> <<"0">>
    [] n = 7 -> <<"7">>

\* an environment assignment as the rendering rule gives it
Rendered(variable, value, sandboxed) ==
  (IF sandboxed THEN EnvFlag ELSE <<>>) \o variable \o <<"=">> \o Quoted(value)

\* an element follows the text before it after one space
Emit(text, element) == IF Len(text) = 0 THEN element ELSE text \o <<" ">> \o element

RECURSIVE EmitAll(_, _)
EmitAll(text, elements) ==
  IF Len(elements) = 0 THEN text
  ELSE EmitAll(Emit(text, Head(elements)), Tail(elements))

\* every order in which the keys of a mapping can be listed
Orders(keys) ==
  {o \in [1..Cardinality(keys) -> keys] :
     \A i, j \in 1..Cardinality(keys) : i # j => o[i] # o[j]}

RenderedInOrder(environment, order, sandboxed) ==
  [i \in 1..Len(order) |-> Rendered(order[i], environment[order[i]], sandboxed)]

HostPrefix(sandboxed) == IF sandboxed THEN HostEscape ELSE <<>>

\* the values a field is varied over when a property says the field has no
\* influence
FieldValues(field) ==
  CASE field = "name_" -> {<<>>, <<"z">>}
    [] field = "icon_path_" -> {<<>>, <<"z">>}
    [] field = "executable_path_" -> ExecutablePaths \cup {<<"z">>}
    [] field = "runtime_" -> Runtimes
    [] field = "use_flatpak_runtime_" -> BOOLEAN
    [] field = "prefix_path_" -> {<<>>, <<"p">>, <<"z">>}
    [] field = "steam_app_id_" -> {-1, 0, 42}
    [] field = "working_directory_" -> {<<>>, <<"w">>, <<"z">>}
    [] field = "environment_variables_" -> EnvironmentMaps
    [] field = "arguments_" -> {<<>>, SomeArguments, <<"z">>}
    [] field = "protontricks_arguments_" -> {<<>>, <<"t">>, <<"z">>}
    [] field = "launcher_type_" -> LauncherTypes
    [] field = "launcher_identifier_" -> {<<>>, <<"g">>, <<"z">>}
    [] field = "proton_path_" -> {<<>>, <<"o">>, <<"z">>}

Variants(t, fields) ==
  UNION {{[t EXCEPT ![field] = value] : value \in FieldValues(field)} : field \in fields}

Manual == Len(tool.command_overwrite_) > 0
SteamBranch == ~Manual /\ tool.runtime_ = "steam"
HeroicBranch ==
  ~Manual /\ tool.runtime_ = "protontricks" /\ tool.launcher_type_ = "heroic"
GenericBranch == ~Manual /\ ~SteamBranch /\ ~HeroicBranch

----------------------------------------------------------------------------
\* C1: in manual mode (commandOverride non-empty) the command built is exactly
\* commandOverride, preceded by "flatpak-spawn --host " when sandboxed, and a
\* Tool that differs from this one in any field other than commandOverride
\* builds the same command.
C1_ManualMode ==
  (command.done /\ Manual) =>
    /\ command.text = HostPrefix(command.is_flatpak) \o tool.command_overwrite_
    /\ \A other \in Variants(tool, DOMAIN tool \ {"command_overwrite_"}) :
         getCommand(other, command.is_flatpak) = command.text

C1_Witness ==
  /\ command.done /\ Manual /\ command.is_flatpak
  /\ tool.runtime_ = "steam" /\ tool.launcher_type_ = "heroic"
  /\ command.text = HostEscape \o <<"m">>

\* C2: for runtime steam without commandOverride the command is the host-escape
\* prefix (iff sandboxed), then the Flatpak Steam wrapper (iff useFlatpakRuntime)
\* or "steam ", then "-applaunch <steamAppId>"; executablePath,
\* workingDirectory, arguments, environmentVariables, prefixPath and
\* launcherType have no influence.
C2_SteamRuntime ==
  (command.done /\ SteamBranch) =>
    /\ command.text =
         HostPrefix(command.is_flatpak)
           \o (IF tool.use_flatpak_runtime_ THEN SteamFlatpakWrapper ELSE SteamHostBinary)
           \o AppLaunchFlag \o Decimal(tool.steam_app_id_)
    /\ \A other \in Variants(tool, {"executable_path_", "working_directory_",
                                    "arguments_", "environment_variables_",
                                    "prefix_path_", "launcher_type_"}) :
         getCommand(other, command.is_flatpak) = command.text

\* the two wrappings are independent: sandboxed caller, host Steam binary
C2_Witness ==
  /\ command.done /\ SteamBranch /\ command.is_flatpak
  /\ ~tool.use_flatpak_runtime_ /\ tool.steam_app_id_ = -1

\* the working-directory element of the Heroic/Proton branch
C3_HeroicElement(sandboxed) ==
  IF Len(tool.working_directory_) = 0 THEN <<>>
  ELSE IF sandboxed THEN DirectoryFlag \o Quoted(tool.working_directory_)
  ELSE CdCommand \o Quoted(tool.working_directory_) \o <<";", " ">>

\* C3: in the Heroic/Proton branch the command is, in this order: the
\* host-escape prefix (iff sandboxed), the working-directory element (iff set),
\* the two compatibility assignments (STEAM_COMPAT_DATA_PATH with the quoted
\* prefixPath, also when that is empty, and STEAM_COMPAT_CLIENT_INSTALL_PATH
\* with "/usr"), every user variable, "<protonPath>/proton" run
\* "<executablePath>", and the arguments iff non-empty; protontricksArguments,
\* steamAppId and useFlatpakRuntime have no influence.
C3_HeroicProton ==
  (command.done /\ HeroicBranch) =>
    LET sandboxed == command.is_flatpak
        compat == (SteamCompatDataPath :> tool.prefix_path_)
                    @@ (SteamCompatClientInstallPath :> UsrPath)
        invocation == Quoted(tool.proton_path_ \o ProtonBinary) \o ProtonRun
                        \o Quoted(tool.executable_path_)
                        \o (IF Len(tool.arguments_) > 0
                            THEN <<" ">> \o tool.arguments_ ELSE <<>>)
    IN /\ \E first \in Orders(DOMAIN compat) :
          \E second \in Orders(DOMAIN tool.environment_variables_) :
            command.text =
              EmitAll(HostPrefix(sandboxed) \o C3_HeroicElement(sandboxed),
                      RenderedInOrder(compat, first, sandboxed)
                        \o RenderedInOrder(tool.environment_variables_, second, sandboxed)
                        \o <<invocation>>)
       /\ \A other \in Variants(tool, {"protontricks_arguments_", "steam_app_id_",
                                       "use_flatpak_runtime_"}) :
            getCommand(other, sandboxed) = command.text

C3_Witness ==
  /\ command.done /\ HeroicBranch /\ command.is_flatpak
  /\ Len(tool.prefix_path_) = 0 /\ Len(tool.working_directory_) > 0
  /\ Cardinality(DOMAIN tool.environment_variables_) > 1
  /\ Len(tool.arguments_) > 0


\* the assignments a command of the Heroic/Proton or the generic branch carries
EmittedAssignments ==
  {<<variable, tool.environment_variables_[variable]>> :
     variable \in DOMAIN tool.environment_variables_}
  \cup (IF HeroicBranch
        THEN {<<SteamCompatDataPath, tool.prefix_path_>>,
              <<SteamCompatClientInstallPath, UsrPath>>}
        ELSE {})
  \cup (IF GenericBranch /\ tool.runtime_ = "wine" /\ Len(tool.prefix_path_) > 0
        THEN {<<WinePrefixVar, tool.prefix_path_>>}
        ELSE {})

\* the quoted executable, then a space and the raw arguments iff non-empty
ExecutableAndArguments ==
  Quoted(tool.executable_path_)
    \o (IF Len(tool.arguments_) > 0 THEN <<" ">> \o tool.arguments_ ELSE <<>>)

\* C4: for runtime wine, WINEPREFIX=<quoted prefixPath> is emitted iff
\* prefixPath is non-empty, after every user variable and directly before the
\* selector wine, and the command ends with wine "<executablePath>" and the
\* arguments iff non-empty; for native and non-Heroic protontricks no
\* WINEPREFIX assignment is added; the worked example gives exactly
\* WINEPREFIX="/home/u/.wine" wine "/games/app.exe" --fullscreen.
C4_WineRuntime ==
  /\ (command.done /\ GenericBranch /\ tool.runtime_ = "wine") =>
       LET sandboxed == command.is_flatpak
           assignment == Rendered(WinePrefixVar, tool.prefix_path_, sandboxed)
           ending == WineSelector \o <<" ">> \o ExecutableAndArguments
           before == SubSeq(command.text, 1,
                            Len(command.text) - Len(assignment) - 1 - Len(ending))
       IN /\ EndsWith(command.text, ending)
          /\ Len(tool.prefix_path_) > 0 =>
               /\ EndsWith(command.text, assignment \o <<" ">> \o ending)
               /\ Occurrences(command.text, WinePrefixVar \o <<"=">>) = 1
               /\ \A variable \in DOMAIN tool.environment_variables_ :
                    Contains(before,
                             Rendered(variable, tool.environment_variables_[variable],
                                      sandboxed))
          /\ Len(tool.prefix_path_) = 0 =>
               ~Contains(command.text, WinePrefixVar \o <<"=">>)
  /\ (command.done /\ GenericBranch /\ tool.runtime_ \in {"native", "protontricks"}) =>
       ~Contains(command.text, WinePrefixVar \o <<"=">>)
  /\ (command.done /\ tool = ExampleWineTool /\ ~command.is_flatpak) =>
       command.text = ExWineCommand

\* the worked example has been run
C4_ExampleReached ==
  /\ command.done /\ ~command.is_flatpak /\ tool = ExampleWineTool
  /\ command.text = ExWineCommand

\* a wine Tool with several user variables and a prefix
C4_Witness ==
  /\ command.done /\ GenericBranch /\ tool.runtime_ = "wine"
  /\ Len(tool.prefix_path_) > 0
  /\ Cardinality(DOMAIN tool.environment_variables_) > 1

\* C5: for runtime protontricks outside the Heroic branch the selector is the
\* Flatpak Protontricks wrapper (iff useFlatpakRuntime) or
\* "protontricks-launch ", then "--appid <steamAppId>", then a space and
\* protontricksArguments iff non-empty, then a space and the quoted
\* executablePath; in every other branch protontricksArguments has no
\* influence on the command.
C5_ProtontricksSelector ==
  /\ (command.done /\ GenericBranch /\ tool.runtime_ = "protontricks") =>
       LET selector ==
             (IF tool.use_flatpak_runtime_
              THEN ProtontricksFlatpakWrapper ELSE ProtontricksHostBinary)
               \o AppIdFlag \o Decimal(tool.steam_app_id_)
               \o (IF Len(tool.protontricks_arguments_) > 0
                   THEN <<" ">> \o tool.protontricks_arguments_ ELSE <<>>)
           ending == selector \o <<" ">> \o ExecutableAndArguments
       IN /\ EndsWith(command.text, ending)
          /\ Len(command.text) > Len(ending) =>
               command.text[Len(command.text) - Len(ending)] = " "
  /\ (command.done /\ ~(GenericBranch /\ tool.runtime_ = "protontricks")) =>
       \A other \in Variants(tool, {"protontricks_arguments_"}) :
         getCommand(other, command.is_flatpak) = command.text

C5_Witness ==
  /\ command.done /\ GenericBranch /\ tool.runtime_ = "protontricks"
  /\ tool.use_flatpak_runtime_ /\ Len(tool.protontricks_arguments_) > 0
  /\ DOMAIN tool.environment_variables_ # {}

\* C6: for runtime native with no working directory, no environment variable
\* and sandboxed false the command is exactly the quoted executablePath, plus a
\* space and the arguments iff non-empty; in every non-manual, non-steam branch
\* the command ends with the quoted executablePath followed, iff arguments is
\* non-empty, by one space and arguments as stored; a sandboxed command of any
\* branch begins with "flatpak-spawn --host ".
C6_NativeAndRawArguments ==
  /\ (command.done /\ GenericBranch /\ tool.runtime_ = "native"
        /\ Len(tool.working_directory_) = 0
        /\ DOMAIN tool.environment_variables_ = {} /\ ~command.is_flatpak) =>
       command.text = ExecutableAndArguments
  /\ (command.done /\ (GenericBranch \/ HeroicBranch)) =>
       EndsWith(command.text, ExecutableAndArguments)
  /\ (command.done /\ command.is_flatpak) => StartsWith(command.text, HostEscape)

C6_Witness ==
  /\ command.done /\ GenericBranch /\ tool.runtime_ = "native"
  /\ Len(tool.working_directory_) = 0 /\ DOMAIN tool.environment_variables_ = {}
  /\ ~command.is_flatpak /\ tool.arguments_ = SomeArguments
  /\ tool.executable_path_ = <<"x", Q>>

\* C7: every assignment a command carries (user variables, WINEPREFIX, the two
\* STEAM_COMPAT variables) reads VAR="value" when not sandboxed and
\* --env=VAR="value" when sandboxed, the value quoted by the quoting rule and a
\* space before the assignment; a sandboxed command has no assignment without
\* --env=, a command that is not sandboxed has no --env= at all.
C7_EnvironmentRendering ==
  (command.done /\ (GenericBranch \/ HeroicBranch)) =>
    LET sandboxed == command.is_flatpak IN
    /\ \A a \in EmittedAssignments :
         LET text == Rendered(a[1], a[2], sandboxed)
         IN /\ StartsWith(command.text, text) \/ Contains(command.text, <<" ">> \o text)
            /\ Occurrences(command.text, a[1] \o <<"=">>) = 1
            /\ sandboxed => Occurrences(command.text, EnvFlag \o a[1] \o <<"=">>) = 1
    /\ Occurrences(command.text, EnvFlag)
         = IF sandboxed THEN Cardinality(EmittedAssignments) ELSE 0

C7_Witness ==
  /\ command.done /\ command.is_flatpak /\ GenericBranch /\ tool.runtime_ = "wine"
  /\ Len(tool.prefix_path_) > 0 /\ Cardinality(EmittedAssignments) = 3

\* C8: in the Heroic/Proton and the generic branch, with workingDirectory set
\* the command starts with cd "<dir>"; and a space when not sandboxed, and with
\* flatpak-spawn --host --directory="<dir>" (and no cd) when sandboxed; with
\* workingDirectory empty there is neither a cd prefix nor a --directory flag.
C8_WorkingDirectory ==
  (command.done /\ (GenericBranch \/ HeroicBranch)) =>
    LET dir == Quoted(tool.working_directory_) IN
    /\ (Len(tool.working_directory_) > 0 /\ ~command.is_flatpak) =>
         StartsWith(command.text, CdCommand \o dir \o <<";", " ">>)
    /\ (Len(tool.working_directory_) > 0 /\ command.is_flatpak) =>
         /\ StartsWith(command.text, HostEscape \o DirectoryFlag \o dir)
         /\ ~Contains(command.text, CdCommand \o dir)
    /\ Len(tool.working_directory_) = 0 =>
         /\ ~StartsWith(command.text, CdCommand)
         /\ ~StartsWith(command.text, HostEscape \o CdCommand)
         /\ ~Contains(command.text, DirectoryFlag)

C8_Witness ==
  /\ command.done /\ command.is_flatpak /\ GenericBranch
  /\ tool.runtime_ = "native" /\ Len(tool.working_directory_) > 0

\* C9: quoting is idempotent, leaves a string unchanged exactly when it starts
\* and ends with a double quote and wraps it in one pair of quotes otherwise;
\* and the command embeds executablePath, workingDirectory,
\* "<protonPath>/proton" and every environment value quoted, so that handing
\* getCommand the value already quoted gives the same command.
C9_Quoting ==
  /\ \A s \in {tool.executable_path_, tool.working_directory_, tool.prefix_path_}
             \cup {tool.environment_variables_[variable] :
                     variable \in DOMAIN tool.environment_variables_} :
       /\ encloseInQuotes(encloseInQuotes(s)) = encloseInQuotes(s)
       /\ (encloseInQuotes(s) = s) <=> (Len(s) > 0 /\ s[1] = Q /\ s[Len(s)] = Q)
       /\ encloseInQuotes(s) # s => encloseInQuotes(s) = <<Q>> \o s \o <<Q>>
  /\ (command.done /\ (GenericBranch \/ HeroicBranch)) =>
       /\ Contains(command.text, Quoted(tool.executable_path_))
       /\ getCommand([tool EXCEPT !.executable_path_ = Quoted(@)], command.is_flatpak)
            = command.text
       /\ Len(tool.working_directory_) > 0 =>
            /\ Contains(command.text, Quoted(tool.working_directory_))
            /\ getCommand([tool EXCEPT !.working_directory_ = Quoted(@)],
                          command.is_flatpak) = command.text
       /\ HeroicBranch =>
            Contains(command.text, Quoted(tool.proton_path_ \o ProtonBinary))
       /\ \A a \in EmittedAssignments :
            Contains(command.text, a[1] \o <<"=">> \o Quoted(a[2]))
       /\ getCommand([tool EXCEPT !.environment_variables_ =
                        [variable \in DOMAIN @ |-> Quoted(@[variable])]],
                     command.is_flatpak) = command.text

\* an executable path that is a lone double quote: kept as it is
C9_Witness ==
  /\ command.done /\ GenericBranch /\ tool.executable_path_ = <<Q>>
  /\ EndsWith(command.text, <<" ", Q>>)
  /\ \E variable \in DOMAIN tool.environment_variables_ :
       tool.environment_variables_[variable] = <<Q, "q", Q>>

\* C10: reading back the document toJson wrote goes through the current format
\* and reproduces every field of the Tool (the environment variables with the
\* same pairs in the same order), so the reloaded Tool builds the same command
\* with and without sandbox.
C10_RoundTrip ==
  loaded.done =>
    /\ isMember(json_object.members, "use_flatpak_runtime")
    /\ loaded.ok
    /\ DOMAIN loaded.tool = DOMAIN tool
    /\ \A field \in DOMAIN tool : loaded.tool[field] = tool[field]
    /\ MapKeyOrder(DOMAIN loaded.tool.environment_variables_)
         = MapKeyOrder(DOMAIN tool.environment_variables_)
    /\ \A is_flatpak \in BOOLEAN :
         getCommand(loaded.tool, is_flatpak) = getCommand(tool, is_flatpak)

C10_Witness ==
  /\ loaded.done /\ loaded.ok /\ HeroicBranch
  /\ Cardinality(DOMAIN tool.environment_variables_) > 1
  /\ tool.use_flatpak_runtime_ /\ loaded.tool.proton_path_ = <<"o">>

----------------------------------------------------------------------------
(* The persisted document *)

CurrentSchemaKeys ==
  {"name", "icon_path", "executable_path", "runtime", "use_flatpak_runtime",
   "prefix_path", "steam_app_id", "working_directory", "environment_variables",
   "arguments", "protontricks_arguments", "command", "launcher_type",
   "launcher_identifier", "proton_path"}

\* a JSON list of {variable, value} objects
IsPairList(value) ==
  /\ value.t = "array"
  /\ \A i \in DOMAIN value.v :
       /\ value.v[i].t = "object"
       /\ DOMAIN value.v[i].v = {"variable", "value"}

\* C11: the object toJson produces for any Tool, also one without environment
\* variables, has every key of the current format, runtime and launcher_type
\* as integers (launcher_type 0 for steam, 1 for heroic) and
\* environment_variables as a list of {variable, value} objects.
C11_CompleteCurrentSchema ==
  json_object.done =>
    LET m == json_object.members
    IN /\ DOMAIN m = CurrentSchemaKeys
       /\ m["runtime"].t = "int"
       /\ m["launcher_type"].t = "int"
       /\ m["launcher_type"].v = (IF tool.launcher_type_ = "steam" THEN 0 ELSE 1)
       /\ IsPairList(m["environment_variables"])

\* a Tool without environment variables was saved and the object has no
\* environment_variables member
C11_Witness ==
  /\ json_object.done
  /\ DOMAIN tool.environment_variables_ = {}
  /\ "environment_variables" \notin DOMAIN json_object.members
  /\ DOMAIN json_object.members = CurrentSchemaKeys \ {"environment_variables"}

C12_RequiredKeys ==
  {"name", "icon_path", "executable_path", "runtime", "prefix_path",
   "steam_app_id", "working_directory", "environment_variables", "arguments",
   "protontricks_arguments", "command"}

C12_ExpectedTypes(key) ==
  CASE key = "runtime" -> {"string", "int"}
    [] key = "steam_app_id" -> {"int"}
    [] key = "environment_variables" -> {"array"}
    [] OTHER -> {"string"}

C12_Malformed(m) ==
  \E key \in C12_RequiredKeys :
    key \notin DOMAIN m \/ m[key].t \notin C12_ExpectedTypes(key)

\* C12: the current format is read exactly when use_flatpak_runtime is present
\* (prefix_path, which only the current format reads, is taken from the
\* document then and is left empty otherwise), and in the current format a
\* document that lacks a required key, has a value of another type for one, or
\* has environment_variables that is no array, yields no Tool.
C12_StrictCurrentSchema ==
  loaded.done =>
    LET m == loaded.json
        current == "use_flatpak_runtime" \in DOMAIN m
    IN /\ (current /\ C12_Malformed(m)) => ~loaded.ok
       /\ (loaded.ok /\ "prefix_path" \in DOMAIN m /\ m["prefix_path"].t = "string")
            => loaded.tool.prefix_path_ = (IF current THEN m["prefix_path"].v ELSE <<>>)

\* a current-format document without name was read into a Tool with an empty
\* name
C12_Witness ==
  /\ loaded.done /\ loaded.ok
  /\ "use_flatpak_runtime" \in DOMAIN loaded.json
  /\ "name" \notin DOMAIN loaded.json
  /\ loaded.tool.name_ = <<>>
  /\ loaded.tool.icon_path_ = <<"i">>

C14_ByName(s) ==
  CASE s = <<"w","i","n","e">> -> "wine"
    [] s = <<"p","r","o","t","o","n","t","r","i","c","k","s">> -> "protontricks"
    [] s = <<"s","t","e","a","m">> -> "steam"
    [] OTHER -> "native"

C14_ByCode(i) ==
  CASE i = 1 -> "wine" [] i = 2 -> "protontricks" [] i = 3 -> "steam"
    [] OTHER -> "native"

\* C14: in both formats a string runtime is decoded by name (any other string
\* is native), an integer runtime by its code 0..3, an integer outside 0..3 is
\* native, and the Tool's runtime is always one of the four.
C14_RuntimeDecoding ==
  (loaded.done /\ loaded.ok) =>
    LET m == loaded.json
    IN /\ loaded.tool.runtime_ \in {"native", "wine", "protontricks", "steam"}
       /\ ("runtime" \in DOMAIN m /\ m["runtime"].t = "string")
            => loaded.tool.runtime_ = C14_ByName(m["runtime"].v)
       /\ ("runtime" \in DOMAIN m /\ m["runtime"].t = "int")
            => loaded.tool.runtime_ = C14_ByCode(m["runtime"].v)

\* runtime 7 was read and the Tool's runtime is none of the four
C14_Witness ==
  /\ loaded.done /\ loaded.ok
  /\ "runtime" \in DOMAIN loaded.json
  /\ loaded.json["runtime"] = [t |-> "int", v |-> 7]
  /\ loaded.tool.runtime_ \notin {"native", "wine", "protontricks", "steam"}

C15_WellTyped(m) ==
  /\ "launcher" \in DOMAIN m => m["launcher"].t = "string"
  /\ "launcher_type" \in DOMAIN m =>
       (m["launcher_type"].t = "int" /\ m["launcher_type"].v \in {0, 1})
  /\ "appName" \in DOMAIN m => m["appName"].t = "string"
  /\ "launcher_identifier" \in DOMAIN m => m["launcher_identifier"].t = "string"

\* C15: in both formats launcher gives heroic exactly for "heroic" and steam
\* for any other string; launcher_type, when present, decides instead;
\* launcher_identifier, when present, decides over appName; a key alone is
\* used; with neither key of a pair the field keeps its default.
C15_LauncherPrecedence ==
  (loaded.done /\ loaded.ok /\ C15_WellTyped(loaded.json)) =>
    LET m == loaded.json
    IN /\ loaded.tool.launcher_type_ =
            (IF "launcher_type" \in DOMAIN m
             THEN (IF m["launcher_type"].v = 1 THEN "heroic" ELSE "steam")
             ELSE IF "launcher" \in DOMAIN m
             THEN (IF m["launcher"].v = <<"h","e","r","o","i","c">>
                   THEN "heroic" ELSE "steam")
             ELSE DefaultTool.launcher_type_)
       /\ loaded.tool.launcher_identifier_ =
            (IF "launcher_identifier" \in DOMAIN m
             THEN m["launcher_identifier"].v
             ELSE IF "appName" \in DOMAIN m
             THEN m["appName"].v
             ELSE DefaultTool.launcher_identifier_)

\* an old-format document with launcher "heroic", launcher_type 0 and both
\* identifier keys was read
C15_Witness ==
  /\ loaded.done /\ loaded.ok
  /\ "use_flatpak_runtime" \notin DOMAIN loaded.json
  /\ {"launcher", "launcher_type", "appName", "launcher_identifier"}
       \subseteq DOMAIN loaded.json
  /\ loaded.json["launcher"].v = <<"h","e","r","o","i","c">>
  /\ loaded.json["launcher_type"] = [t |-> "int", v |-> 0]
  /\ loaded.tool.launcher_type_ = "steam"
  /\ loaded.tool.launcher_identifier_ = <<"g">>

----------------------------------------------------------------------------
(* The launcher configuration objects *)

\* launcher_info agrees with expected wherever a getter has been called
C16_Returned(expected) ==
  \A name \in DOMAIN launcher_info : launcher_info[name] = expected[name]

C16_HeroicAnswered ==
  /\ launcher_config.variant = "heroic"
  /\ launcher_config.arguments
       = <<<<"4","2">>, <<"/","i">>, <<"/","p">>, <<"G","E">>, <<"/","o">>, TRUE>>
  /\ DOMAIN launcher_info = {"getType", "getIdentifier", "getInstallPath",
                             "getWinePrefix", "getWineVersion", "getProtonPath",
                             "isFlatpak"}
  /\ launcher_info["isFlatpak"] = TRUE

----------------------------------------------------------------------------
(* The Heroic detector *)

SandboxedRoot == [root |-> "flatpak", sub |-> "", name |-> <<>>]
NativeRoot == [root |-> "native", sub |-> "", name |-> <<>>]
Nothing == [root |-> "", sub |-> "", name |-> <<>>]

\* C17: the configuration root is the sandboxed location whenever that exists
\* (also when the native one exists too), the native location when only that
\* exists, and nothing when neither exists; isHeroicInstalled answers true
\* exactly when there is a root.
C17_ConfigRoot ==
  detector.call = "isHeroicInstalled" =>
    /\ fs.flatpak.exists => detector.config_dir = SandboxedRoot
    /\ (~fs.flatpak.exists /\ fs.native.exists) => detector.config_dir = NativeRoot
    /\ (~fs.flatpak.exists /\ ~fs.native.exists) => detector.config_dir = Nothing
    /\ detector.value <=> (detector.config_dir # Nothing)

\* both roots exist and the sandboxed one was chosen
C17_Witness ==
  /\ detector.call = "isHeroicInstalled"
  /\ fs.flatpak.exists /\ fs.native.exists
  /\ detector.config_dir = SandboxedRoot /\ detector.value

\* only the native root exists
C17_NativeOnly ==
  /\ detector.call = "isHeroicInstalled"
  /\ ~fs.flatpak.exists /\ fs.native.exists
  /\ detector.config_dir = NativeRoot /\ detector.value

\* C18: with neither configuration root on disk detectGames returns the empty
\* list and getGameConfig returns nothing, and the call touches no path other
\* than the two roots: no store file, per-game file or tools directory.
C18_ShortCircuit ==
  (~fs.flatpak.exists /\ ~fs.native.exists) =>
    /\ detector.call = "detectGames" =>
         (detector.games = <<>> /\ detector.touched \subseteq {SandboxedRoot, NativeRoot})
    /\ detector.call = "getGameConfig" =>
         (~detector.present /\ detector.touched \subseteq {SandboxedRoot, NativeRoot})

C18_Witness ==
  /\ ~fs.flatpak.exists /\ ~fs.native.exists
  /\ detector.call = "getGameConfig" /\ detector.app_name = <<"a">>
  /\ ~detector.present
  /\ detector.touched = {SandboxedRoot, NativeRoot}

C18_DetectGamesReached ==
  /\ ~fs.flatpak.exists /\ ~fs.native.exists
  /\ detector.call = "detectGames" /\ detector.games = <<>>

\* the root detectGames reads (C17), and the files of that root
UsedRoot == IF fs.flatpak.exists THEN fs.flatpak ELSE fs.native

StoreIsArray(dir) ==
  /\ dir \in DOMAIN UsedRoot.store
  /\ UsedRoot.store[dir].status = "ok"
  /\ UsedRoot.store[dir].json.t = "array"

HasString(object, key) == key \in DOMAIN object.v /\ object.v[key].t = "string"

\* the per-game file of app_name exists, parses, has both required keys and
\* every field of the type the layout gives it
GameFileSound(app_name) ==
  LET file_name == app_name \o <<".","j","s","o","n">>
      json == UsedRoot.games[file_name].json
  IN /\ file_name \in DOMAIN UsedRoot.games
     /\ UsedRoot.games[file_name].status = "ok"
     /\ json.t = "object"
     /\ HasString(json, "install_path")
     /\ HasString(json, "winePrefix")
     /\ "wineVersion" \in DOMAIN json.v =>
          /\ json.v["wineVersion"].t = "object"
          /\ "name" \in DOMAIN json.v["wineVersion"].v =>
               HasString(json.v["wineVersion"], "name")

\* every entry of the store's array is an object with a string appName, or
\* without one, and a string title, or without one
EntriesWellFormed(dir) ==
  \A i \in DOMAIN UsedRoot.store[dir].json.v :
    LET entry == UsedRoot.store[dir].json.v[i]
    IN /\ entry.t = "object"
       /\ "appName" \in DOMAIN entry.v => entry.v["appName"].t = "string"
       /\ "title" \in DOMAIN entry.v => entry.v["title"].t = "string"

\* the app names a store contributes: those of its entries, in array order,
\* that have an appName for which Resolves holds; nothing if it is no array
Contribution(dir, Resolves(_)) ==
  LET Listed(entry) ==
        /\ entry.t = "object"
        /\ HasString(entry, "appName")
        /\ Resolves(entry.v["appName"].v)
      listed == IF StoreIsArray(dir)
                THEN SelectSeq(UsedRoot.store[dir].json.v, Listed)
                ELSE <<>>
  IN [i \in DOMAIN listed |->
        <<listed[i].v["appName"].v,
          IF HasString(listed[i], "title") THEN listed[i].v["title"].v ELSE <<>>>>]

ReturnedNamesAndTitles ==
  [i \in DOMAIN detector.games |->
     <<detector.games[i].app_name, detector.games[i].title>>]

\* C19: in detectGames a store whose installed.json is missing, unparseable or
\* no array contributes nothing while the other stores are still processed; a
\* game whose per-game file is missing, unparseable, lacks a required key or
\* has a field of another type is left out while the other entries of the
\* same and of later stores are still processed.
C19_FailureContainment ==
  (/\ detector.call = "detectGames"
   /\ (fs.flatpak.exists \/ fs.native.exists)
   /\ \A dir \in {"store", "gog_store", "amazon_store"} :
        StoreIsArray(dir) => EntriesWellFormed(dir))
    => ReturnedNamesAndTitles
         = Contribution("store", GameFileSound)
             \o Contribution("gog_store", GameFileSound)
             \o Contribution("amazon_store", GameFileSound)

\* game d, whose install_path is the number 7, is listed
C19_Witness ==
  /\ detector.call = "detectGames"
  /\ \E i \in DOMAIN detector.games :
       /\ detector.games[i].app_name = <<"d">>
       /\ detector.games[i].install_path = <<"7">>
  /\ Len(detector.games) = 5

\* what getGameConfig decides for a name, under the root in use
Resolvable(app_name) == getGameConfig(fs, app_name).present

\* C20: with a configuration root present, detectGames returns one info for
\* each entry of each store array that has an appName whose per-game config
\* resolves, Epic's first, then GOG's, then Amazon's, in array order, with the
\* entry's title or an empty one; entries without appName are skipped; a name
\* listed several times appears as often.
C20_ResultContent ==
  (detector.call = "detectGames" /\ (fs.flatpak.exists \/ fs.native.exists))
    => ReturnedNamesAndTitles
         = Contribution("store", Resolvable)
             \o Contribution("gog_store", Resolvable)
             \o Contribution("amazon_store", Resolvable)

\* the Epic array [5, {appName: b}] contributed nothing, though b resolves
C20_Witness ==
  /\ detector.call = "detectGames"
  /\ fs.flatpak.exists
  /\ StoreIsArray("store")
  /\ Len(UsedRoot.store["store"].json.v) = 2
  /\ UsedRoot.store["store"].json.v[1] = [t |-> "int", v |-> 5]
  /\ Resolvable(<<"b">>)
  /\ ReturnedNamesAndTitles = <<<<<<"b">>, <<"T","b">>>>, <<<<"a">>, <<>>>>>>

\* the per-game file of app_name under the root in use
GameFile(app_name) ==
  LET file_name == app_name \o <<".","j","s","o","n">>
  IN IF file_name \in DOMAIN UsedRoot.games
     THEN UsedRoot.games[file_name]
     ELSE [status |-> "missing", json |-> [t |-> "null", v |-> <<>>]]

FileHasKey(file, key) ==
  file.status = "ok" /\ file.json.t = "object" /\ key \in DOMAIN file.json.v

Scalar(value) == value.t \in {"null", "string", "int", "bool"}

\* a scalar as text
TextOf(value) ==
  CASE value.t = "string" -> value.v
    [] value.t = "int" -> Decimal(value.v)
    [] OTHER -> <<>>

\* the info returned carries the requested name and the file's two values
ReturnedFromFile(file) ==
  /\ detector.present
  /\ detector.info.app_name = detector.app_name
  /\ detector.info.install_path = TextOf(file.json.v["install_path"])
  /\ detector.info.wine_prefix = TextOf(file.json.v["winePrefix"])

\* C21 as stated: getGameConfig returns nothing when the per-game file does
\* not exist or lacks install_path or winePrefix, and whenever both keys are
\* present it returns an info with the requested name and the file's values.
C21_RequiredKeys ==
  detector.call = "getGameConfig" =>
    LET file == GameFile(detector.app_name)
    IN IF FileHasKey(file, "install_path") /\ FileHasKey(file, "winePrefix")
       THEN ReturnedFromFile(file)
       ELSE ~detector.present

\* both keys hold scalars, and wineVersion, if listed, is null or an object
\* whose name, if listed, is a scalar
GameFileReadable(file) ==
  /\ FileHasKey(file, "install_path") /\ Scalar(file.json.v["install_path"])
  /\ FileHasKey(file, "winePrefix") /\ Scalar(file.json.v["winePrefix"])
  /\ "wineVersion" \in DOMAIN file.json.v =>
       \/ file.json.v["wineVersion"].t = "null"
       \/ /\ file.json.v["wineVersion"].t = "object"
          /\ "name" \in DOMAIN file.json.v["wineVersion"].v =>
               Scalar(file.json.v["wineVersion"].v["name"])

\* C21: getGameConfig returns nothing when the per-game file does not exist
\* or lacks install_path or winePrefix; it returns an info with the requested
\* name and the file's two values when both keys hold scalars and wineVersion,
\* if listed, is null or an object whose name, if listed, is a scalar; and it
\* returns nothing when a listed value has another type.
C21_RequiredKeysTyped ==
  detector.call = "getGameConfig" =>
    LET file == GameFile(detector.app_name)
    IN IF GameFileReadable(file) THEN ReturnedFromFile(file) ELSE ~detector.present

\* game d's file lacks winePrefix and nothing is returned
C21_Witness ==
  /\ detector.call = "getGameConfig" /\ detector.app_name = <<"d">>
  /\ FileHasKey(GameFile(<<"d">>), "install_path")
  /\ ~FileHasKey(GameFile(<<"d">>), "winePrefix")
  /\ ~detector.present

\* game a's file has both keys and its values are returned
C21_Returned ==
  /\ detector.call = "getGameConfig" /\ detector.app_name = <<"a">>
  /\ fs.flatpak.exists
  /\ detector.present
  /\ detector.info.install_path = <<"/", "f", "a">>
  /\ detector.info.wine_prefix = <<"~", "f", "a">>

\* tools/proton of the root in use, and a path in it
UsedRootName == IF fs.flatpak.exists THEN "flatpak" ELSE "native"
ToolsRoot == [root |-> UsedRootName, sub |-> "tools/proton", name |-> <<>>]
InToolsRoot(name) == [root |-> UsedRootName, sub |-> "tools/proton", name |-> name]

Subdirectories ==
  {UsedRoot.tools.entries[i].name :
     i \in {j \in DOMAIN UsedRoot.tools.entries : UsedRoot.tools.entries[j].is_dir}}

\* getGameConfig returned a game that names a version, so that it called
\* findProtonPath(version, toolsRoot)
ProtonLookedUp ==
  /\ detector.call = "getGameConfig"
  /\ detector.present
  /\ detector.info.wine_version # <<>>

\* C22: when the tools directory has a subdirectory named exactly version,
\* findProtonPath returns that subdirectory, whatever other subdirectories
\* contain version and in whatever order the scan lists them.
C22_ExactMatchFirst ==
  (/\ ProtonLookedUp
   /\ UsedRoot.tools.exists
   /\ detector.info.wine_version \in Subdirectories)
    => detector.info.proton_path = InToolsRoot(detector.info.wine_version)

\* GE-Proton9-2-rc is listed before GE-Proton9-2 and GE-Proton9-2 is returned
C22_Witness ==
  /\ ProtonLookedUp
  /\ detector.info.wine_version = <<"G","E","-","P","r","o","t","o","n","9","-","2">>
  /\ UsedRoot.tools.entries[1].name
       = <<"G","E","-","P","r","o","t","o","n","9","-","2","-","r","c">>
  /\ UsedRoot.tools.entries[1].is_dir
  /\ detector.info.proton_path
       = InToolsRoot(<<"G","E","-","P","r","o","t","o","n","9","-","2">>)

\* GE is listed before GE-rc and GE is returned
C22_ExactListedFirst ==
  /\ ProtonLookedUp
  /\ detector.info.wine_version = <<"G","E">>
  /\ Len(UsedRoot.tools.entries) = 2
  /\ UsedRoot.tools.entries[2].name = <<"G","E","-","r","c">>
  /\ detector.info.proton_path = InToolsRoot(<<"G","E">>)

\* C23: findProtonPath returns nothing when the tools directory is missing,
\* when no immediate subdirectory's name contains version, or when the scan
\* fails; every path it returns is an existing directory immediately under
\* the tools directory whose name equals or contains version, so a regular
\* file is never returned.
C23_ResolutionResult ==
  ProtonLookedUp =>
    /\ ~UsedRoot.tools.exists => detector.info.proton_path = Nothing
    /\ (\A name \in Subdirectories : ~Contains(name, detector.info.wine_version))
         => detector.info.proton_path = Nothing
    /\ (~UsedRoot.tools.readable /\ detector.info.wine_version \notin Subdirectories)
         => detector.info.proton_path = Nothing
    /\ detector.info.proton_path # Nothing =>
         /\ UsedRoot.tools.exists
         /\ \E name \in Subdirectories :
              /\ detector.info.proton_path = InToolsRoot(name)
              /\ Contains(name, detector.info.wine_version)

\* the version /u, an existing directory, is returned though the tools
\* directory holds only GE
C23_Witness ==
  /\ ProtonLookedUp
  /\ detector.info.wine_version = <<"/","u">>
  /\ Subdirectories = {<<"G","E">>}
  /\ detector.info.proton_path = [root |-> "/", sub |-> "", name |-> <<"/","u">>]

\* the key path wineVersion.name of a file
HasVersionName(file) ==
  /\ "wineVersion" \in DOMAIN file.json.v
  /\ file.json.v["wineVersion"].t = "object"
  /\ "name" \in DOMAIN file.json.v["wineVersion"].v

\* C24: a game returned by getGameConfig has wineVersion.name as its version
\* if that key path is present and an empty version otherwise; its Proton path
\* is findProtonPath(version, toolsRoot) for a non-empty version and empty for
\* an empty one, toolsRoot being <configRoot>/tools/proton if that exists and
\* nothing otherwise; a missing tools directory or an unmatched version
\* leaves the Proton path empty and never makes the result absent.
C24_ProtonAttachment ==
  detector.call = "getGameConfig" =>
    LET file == GameFile(detector.app_name)
        version == IF HasVersionName(file)
                   THEN TextOf(file.json.v["wineVersion"].v["name"])
                   ELSE <<>>
        toolsRoot == IF UsedRoot.tools.exists THEN ToolsRoot ELSE Nothing
    IN /\ detector.present =>
            /\ detector.info.wine_version = version
            /\ detector.info.proton_path
                 = IF version # <<>>
                   THEN findProtonPath(fs, version, toolsRoot).path
                   ELSE Nothing
       /\ GameFileReadable(file) =>
            /\ detector.present
            /\ ~UsedRoot.tools.exists => detector.info.proton_path = Nothing

\* the example: Croc with version GE-Proton9-2 and a tools directory that
\* contains GE-Proton9-2
C24_Witness ==
  /\ detector.call = "getGameConfig"
  /\ detector.present
  /\ detector.info.install_path = <<"/","g","a","m","e","s","/","C","r","o","c">>
  /\ detector.info.wine_prefix
       = <<"/","h","o","m","e","/","u","/","h","e","r","o","i","c","/","C","r","o","c">>
  /\ detector.info.wine_version = <<"G","E","-","P","r","o","t","o","n","9","-","2">>
  /\ detector.info.proton_path
       = InToolsRoot(<<"G","E","-","P","r","o","t","o","n","9","-","2">>)

\* game a names version GE, there is no tools directory, and the game is
\* returned without a Proton path
C24_MissingToolsDirectory ==
  /\ detector.call = "getGameConfig" /\ detector.app_name = <<"a">>
  /\ (fs.flatpak.exists \/ fs.native.exists)
  /\ ~UsedRoot.tools.exists
  /\ detector.present
  /\ detector.info.wine_version = <<"G","E">>
  /\ detector.info.proton_path = Nothing

\* what the files, as they are, give for a version: the subdirectory of that
\* name, or else the first subdirectory a scan lists whose name contains it
ExpectedProton(version) ==
  LET entries == UsedRoot.tools.entries
      matches == {i \in DOMAIN entries :
                    entries[i].is_dir /\ Contains(entries[i].name, version)}
  IN IF version = <<>> \/ ~UsedRoot.tools.exists THEN Nothing
     ELSE IF version \in Subdirectories THEN InToolsRoot(version)
     ELSE IF matches = {} THEN Nothing
     ELSE InToolsRoot(entries[CHOOSE i \in matches : \A j \in matches : i <= j].name)

\* what the files, as they are, give for a game whose per-game file is sound
ExpectedInfo(app_name, title) ==
  LET file == GameFile(app_name)
      version == IF HasVersionName(file)
                 THEN TextOf(file.json.v["wineVersion"].v["name"])
                 ELSE <<>>
  IN [app_name |-> app_name, title |-> title,
      install_path |-> TextOf(file.json.v["install_path"]),
      wine_prefix |-> TextOf(file.json.v["winePrefix"]),
      wine_version |-> version,
      proton_path |-> ExpectedProton(version)]

ExpectedGames ==
  LET listed == Contribution("store", GameFileSound)
                  \o Contribution("gog_store", GameFileSound)
                  \o Contribution("amazon_store", GameFileSound)
  IN [i \in DOMAIN listed |-> ExpectedInfo(listed[i][1], listed[i][2])]

\* C25: whatever changes were made to the roots, store files, per-game files
\* and Proton directories before a call, the result of isHeroicInstalled,
\* detectGames and getGameConfig is what the files give at the time of the
\* call; nothing of an earlier call is reused.
C25_Stateless ==
  (detector.call # "none" /\ detector.current) =>
    /\ detector.call = "isHeroicInstalled" =>
         (detector.value <=> (fs.flatpak.exists \/ fs.native.exists))
    /\ detector.call = "detectGames" => detector.games = ExpectedGames
    /\ detector.call = "getGameConfig" =>
         /\ detector.present <=> GameFileSound(detector.app_name)
         /\ detector.present =>
              detector.info = ExpectedInfo(detector.app_name, <<>>)

\* after the sandboxed root has been created and filled, detectGames lists
\* game a from it and not from the native root
C25_Witness ==
  /\ detector.call = "detectGames" /\ detector.current
  /\ fs.flatpak.exists /\ fs.native.exists
  /\ fs.native.games # fs.flatpak.games
  /\ "store" \in DOMAIN fs.native.store
  /\ Len(detector.games) = 1
  /\ detector.games[1].install_path = <<"/", "f", "a">>
  /\ detector.games[1].proton_path = InToolsRoot(<<"G","E","-","r","c">>)

\* the games an earlier detectGames listed are still held when both roots
\* have been removed
C25_StaleResult ==
  /\ detector.call = "detectGames" /\ ~detector.current
  /\ detector.games # <<>>
  /\ ~fs.flatpak.exists /\ ~fs.native.exists

\* C29: the Proton path of a game that getGameConfig returns is empty or
\* lies under the configuration root its per-game file was read from, also
\* when another process creates or removes a configuration root between the
\* steps of the call.
C29_SingleRoot ==
  (/\ detector.call = "getGameConfig"
   /\ detector.step = "done"
   /\ detector.present)
    => \/ detector.info.proton_path = Nothing
       \/ detector.info.proton_path.root = detector.config_dir.root

\* game a's file was read from the native root and its Proton path lies
\* under the sandboxed root, created while the call ran
C29_Witness ==
  /\ detector.call = "getGameConfig"
  /\ detector.step = "done"
  /\ detector.present
  /\ ~detector.current
  /\ detector.config_dir = NativeRoot
  /\ detector.info.install_path = <<"/", "n", "a">>
  /\ detector.info.proton_path
       = [root |-> "flatpak", sub |-> "tools/proton", name |-> <<"G","E">>]

\* C26: for a Tool with a commandOverride or with runtime native, wine or
\* steam, a Tool that differs from it in launcherType, launcherIdentifier or
\* protonPath builds the same command, sandboxed or not; and for every Tool a
\* different launcherIdentifier gives the same command, so the identifier is
\* never part of one.
C26_LauncherOnlyForProtontricks ==
  command.done =>
    /\ (Manual \/ tool.runtime_ \in {"native", "wine", "steam"}) =>
         \A other \in Variants(tool, {"launcher_type_", "launcher_identifier_",
                                       "proton_path_"}) :
           /\ getCommand(other, command.is_flatpak) = command.text
           /\ getCommand(other, ~command.is_flatpak)
                = getCommand(tool, ~command.is_flatpak)
    /\ \A other \in Variants(tool, {"launcher_identifier_"}) :
         getCommand(other, command.is_flatpak) = command.text

\* a wine Tool of a Heroic game: its command is the wine command
C26_Witness ==
  /\ command.done /\ ~Manual
  /\ tool.runtime_ = "wine" /\ tool.launcher_type_ = "heroic"
  /\ Len(tool.prefix_path_) > 0
  /\ command.text
       = EmitAll(HostPrefix(command.is_flatpak),
                 <<Rendered(<<"W","I","N","E","P","R","E","F","I","X">>,
                            tool.prefix_path_, command.is_flatpak),
                   <<"w","i","n","e">>, ExecutableAndArguments>>)

\* lexicographic order of two names by character code
RECURSIVE NameBefore(_, _)
NameBefore(a, b) ==
  IF Len(b) = 0 THEN FALSE
  ELSE IF Len(a) = 0 THEN TRUE
  ELSE IF a[1] = b[1] THEN NameBefore(Tail(a), Tail(b))
  ELSE Ascii[a[1]] < Ascii[b[1]]

\* where a piece of text first occurs in a command
IndexOf(text, piece) ==
  CHOOSE i \in 1..Len(text) :
    OccursAt(text, piece, i) /\ \A j \in 1..(i - 1) : ~OccursAt(text, piece, j)

\* the environment_variables list of the document read: its names, and the
\* value each name is listed with last
ListedPairs == loaded.json["environment_variables"].v
ListedNames == {ListedPairs[i].v["variable"].v : i \in DOMAIN ListedPairs}
LastListed(name) ==
  LET at == {i \in DOMAIN ListedPairs : ListedPairs[i].v["variable"].v = name}
  IN ListedPairs[CHOOSE i \in at : \A j \in at : j <= i].v["value"].v

\* a current-format document whose environment_variables is a list of
\* {variable, value} objects of strings was read
C27_ListRead ==
  /\ loaded.done /\ loaded.ok
  /\ "use_flatpak_runtime" \in DOMAIN loaded.json
  /\ "environment_variables" \in DOMAIN loaded.json
  /\ IsPairList(loaded.json["environment_variables"])
  /\ \A i \in DOMAIN ListedPairs :
       ListedPairs[i].v["variable"].t = "string" /\ ListedPairs[i].v["value"].t = "string"

\* C27: the Tool read from a current-format document holds each listed
\* variable once, with the value listed last; in its command the assignments
\* of those variables stand in ascending order of their names, whatever the
\* order of the list, and in the Heroic/Proton branch
\* STEAM_COMPAT_CLIENT_INSTALL_PATH stands before STEAM_COMPAT_DATA_PATH; the
\* document written for it lists each variable once in ascending order.
C27_KeyOrder ==
  C27_ListRead =>
    LET t == loaded.tool
        written == toJson(t)["environment_variables"].v
    IN /\ t.environment_variables_ = [name \in ListedNames |-> LastListed(name)]
       /\ (Len(t.command_overwrite_) = 0 /\ t.runtime_ # "steam") =>
            \A sandboxed \in BOOLEAN :
              LET text == getCommand(t, sandboxed)
              IN /\ \A first \in ListedNames : \A second \in ListedNames :
                      NameBefore(first, second) =>
                        /\ Contains(text, Rendered(first, LastListed(first), sandboxed))
                        /\ Contains(text, Rendered(second, LastListed(second), sandboxed))
                        /\ IndexOf(text, Rendered(first, LastListed(first), sandboxed))
                             < IndexOf(text, Rendered(second, LastListed(second), sandboxed))
                 /\ (t.runtime_ = "protontricks" /\ t.launcher_type_ = "heroic") =>
                      /\ Contains(text, SteamCompatClientInstallPath \o <<"=">>)
                      /\ Contains(text, SteamCompatDataPath \o <<"=">>)
                      /\ IndexOf(text, SteamCompatClientInstallPath \o <<"=">>)
                           < IndexOf(text, SteamCompatDataPath \o <<"=">>)
       /\ ListedNames # {} =>
            /\ Len(written) = Cardinality(ListedNames)
            /\ \A i \in DOMAIN written :
                 /\ written[i].v["variable"].v \in ListedNames
                 /\ written[i].v["value"].v = LastListed(written[i].v["variable"].v)
            /\ \A i \in DOMAIN written : \A j \in DOMAIN written :
                 i < j => NameBefore(written[i].v["variable"].v,
                                     written[j].v["variable"].v)

\* the list B=v, A=x, B=w was read: B holds w, and A comes first
C27_Witness ==
  /\ C27_ListRead
  /\ Len(ListedPairs) = 3
  /\ ListedPairs[1].v["variable"].v = <<"B">>
  /\ ListedPairs[3].v["variable"].v = <<"B">>
  /\ loaded.tool.runtime_ = "protontricks" /\ loaded.tool.launcher_type_ = "heroic"
  /\ loaded.tool.environment_variables_[<<"B">>] = <<"w">>
  /\ DOMAIN loaded.tool.environment_variables_ = {<<"A">>, <<"B">>}

\* the document the editor builds for a Heroic game with runtime protontricks
C28_EditorDocument(m) ==
  /\ DOMAIN m = {"name", "icon_path", "executable_path", "runtime", "launcher",
                 "appName", "working_directory", "arguments",
                 "protontricks_arguments", "environment_variables"}
  /\ m["runtime"] = [t |-> "string",
                     v |-> <<"p","r","o","t","o","n","t","r","i","c","k","s">>]
  /\ m["launcher"] = [t |-> "string", v |-> <<"h","e","r","o","i","c">>]
  /\ \A key \in {"name", "icon_path", "executable_path", "appName",
                  "working_directory", "arguments", "protontricks_arguments"} :
       m[key].t = "string"
  /\ IsPairList(m["environment_variables"])
  /\ \A i \in DOMAIN m["environment_variables"].v :
       /\ m["environment_variables"].v[i].v["variable"].t = "string"
       /\ m["environment_variables"].v[i].v["value"].t = "string"

C28_KeysListed ==
  /\ loaded.done /\ loaded.ok
  /\ "use_flatpak_runtime" \notin DOMAIN loaded.json
  /\ {"prefix_path", "steam_app_id", "environment_variables"} \subseteq DOMAIN loaded.json
  /\ loaded.json["prefix_path"].v # <<>>
  /\ loaded.tool.prefix_path_ = <<>>

====
